---- MODULE Spec2Model ----
(***************************************************************************)
(* paystream: the WeChat Pay V2 micropayment flow                          *)
(* (WechatPayV2Client.processMicropay / pollPaymentResult), the provider   *)
(* callback pipeline (BaseProvider.handleNotify with the WeChat and Alipay *)
(* providers) and the acknowledgment built for its outcome, the            *)
(* ProviderFactory, PaymentManagerV2 with its HookManager, the order       *)
(* operations of one Provider object over its gateway client, the          *)
(* canonical strings and signatures of the clients, and HookManager.emit   *)
(* under callStatusHooks.                                                  *)
(***************************************************************************)
EXTENDS Integers, Sequences, FiniteSets, TLC

VARIABLES
    \* ---- WechatPayV2Client.processMicropay ----
    mpPc,        \* position of the one processMicropay call
    now,         \* Date.now(), in ms since the call began
    startTime,   \* pollPaymentResult's startTime (-1 before polling)
    outTradeNo,  \* params.out_trade_no
    log,         \* client calls, sleeps and query answers, in order
    mpOutcome,   \* what processMicropay returned or threw
    readUnverified, \* a field was read of a response no check has passed
    \* ---- BaseProvider.handleNotify ----
    nPc,         \* position of the one handleNotify call
    provider,    \* providerName
    config,      \* the provider's config
    payload,     \* the PaymentNotifyPayload being handled
    steps,       \* pipeline steps begun, in order
    verifyResult, \* the VerifyResult of verifySignature
    transformed, \* what transformNotification returned or threw
    nOutcome,    \* what handleNotify returned or threw
    ack,         \* the response createResponse built for that outcome
    \* ---- ProviderFactory (defaultProviderFactory) ----
    factoryProviders, \* ProviderFactory.providers: name -> registration
    instances,   \* ProviderFactory.instances: name -> cached instance
    nextId,      \* identity of the next object a constructor returns
    fLast,       \* the last factory call: its arguments and outcome
    \* ---- PaymentManagerV2 ----
    mConfig,     \* PaymentManagerV2.config
    providers,   \* PaymentManagerV2.providers: name -> instance
    settled,     \* providers as the last finished manager method left it
    hooks,       \* HookManager.hooks: event -> handlers in order
    calls,       \* the handleNotify calls: position and locals of each
    destroyed,   \* destroy() has been called
    lastUpdate,  \* the argument of an updateConfig that nothing followed
    \* ---- one WechatProvider / AlipayProvider object ----
    pInstance,   \* the Provider object: its name and config
    keyOk,       \* config.privateKey is a key createSign can sign with
    pLast,       \* the last constructor / updateConfig call and its outcome
    opPc,        \* position of the one createOrder / queryOrder / refund
    opReq,       \* the operation and its request
    wire,        \* HTTP requests the operation has sent, in order
    totalAmount, \* refund's local totalAmount
    opOutcome,   \* what the operation returned or threw
    \* ---- generateSignature / buildSignString ----
    sParams,     \* the parameter object: its own keys in insertion order
    sOut,        \* the last canonical string built, and by which routine
    roundTrip,   \* AlipaySignature: the signature made, and verify's answer
    \* ---- HookManager under callStatusHooks ----
    hmHooks,     \* HookManager.hooks: event -> handlers in order
    hPc,         \* position of the one callStatusHooks call
    notification, \* the notification it was called with
    emits        \* the emit calls begun: registry read, handlers run, promises

mvars == <<mpPc, now, startTime, outTradeNo, log, mpOutcome, readUnverified>>
nvars == <<nPc, provider, config, payload, steps, verifyResult, transformed,
           nOutcome, ack>>
fvars == <<factoryProviders, instances, nextId, fLast>>
gvars == <<mConfig, providers, settled, hooks, calls, destroyed, lastUpdate>>
pvars == <<pInstance, keyOk, pLast, opPc, opReq, wire, totalAmount, opOutcome>>
svars == <<sParams, sOut, roundTrip>>
hvars == <<hmHooks, hPc, notification, emits>>
vars == <<mpPc, now, startTime, outTradeNo, log, mpOutcome, readUnverified,
          nPc, provider, config, payload, steps, verifyResult, transformed,
          nOutcome, ack, factoryProviders, instances, nextId, fLast,
          mConfig, providers, settled, hooks, calls, destroyed, lastUpdate,
          pInstance, keyOk, pLast, opPc, opReq, wire, totalAmount, opOutcome,
          sParams, sOut, roundTrip, hmHooks, hPc, notification, emits>>

-----------------------------------------------------------------------------
(* Bounds and program constants *)

\* network latency of one gateway call is 0..MaxLatency steps of LatencyStep ms
MaxLatency == 1

PollTimeout == 45000
PollInterval == 10000
GraceWait == 5000

LatencyStep == PollInterval \div 4
Latencies == {i * LatencyStep : i \in 0..MaxLatency}

-----------------------------------------------------------------------------
(* Outcomes of a call *)

None == [kind |-> "none"]
Return(v) == [kind |-> "return", value |-> v]
Throw(c, m) == [kind |-> "throw", code |-> c, msg |-> m]

\* the PaymentError messages that tell the error sites apart
MsgHttp == "API request failed"
MsgVerify == "response signature verification failed"
MsgEmptyOrderNo == "order numbers both empty"
MsgIndeterminate == "system error, payment status indeterminate"
MsgTimeout == "payment timed out, order reversed"
MsgGateway == "micropay failed"

-----------------------------------------------------------------------------
(* The gateway's answers to one V2 request *)

MicropayReplies ==
    [httpOk : BOOLEAN, return_code : {"SUCCESS", "FAIL"},
     result_code : {"SUCCESS", "FAIL"},
     err_code : {"", "SYSTEMERROR", "USERPAYING", "AUTHCODEEXPIRE"},
     trade_state : {""}, sigOk : BOOLEAN]

QueryReplies ==
    [httpOk : BOOLEAN, return_code : {"SUCCESS", "FAIL"},
     result_code : {"SUCCESS", "FAIL"}, err_code : {""},
     trade_state : {"", "SUCCESS", "USERPAYING", "NOTPAY", "PAYERROR", "CLOSED"},
     sigOk : BOOLEAN]

ReverseReplies ==
    [httpOk : BOOLEAN, return_code : {"SUCCESS", "FAIL"},
     result_code : {"SUCCESS", "FAIL"}, err_code : {""},
     trade_state : {""}, sigOk : BOOLEAN]

\* WechatPayV2Client.request: what the caller gets for a gateway answer
request(reply) ==
    IF ~reply.httpOk THEN Throw("NETWORK_ERROR", MsgHttp)
    ELSE IF reply.return_code = "SUCCESS" /\ ~reply.sigOk
         THEN Throw("VERIFY_FAILED", MsgVerify)
         ELSE Return(reply)

\* queryOrder / reverseOrder called with out_trade_no only
orderCall(reply) ==
    IF outTradeNo = "" THEN Throw("INVALID_PARAMS", MsgEmptyOrderNo)
    ELSE request(reply)

IsSuccess(r) == r.return_code = "SUCCESS" /\ r.result_code = "SUCCESS"

Ev(e, i) == [ev |-> e, info |-> i]

\* how pollPaymentResult and processMicropay read one query outcome
QueryClass(o) ==
    IF o.kind = "throw" THEN "threw"
    ELSE IF IsSuccess(o.value) THEN "success"
    ELSE IF o.value.trade_state \in {"PAYERROR", "CLOSED"} THEN "failed"
    ELSE "pending"

CountEv(e) == Cardinality({i \in 1..Len(log) : log[i].ev = e})

-----------------------------------------------------------------------------
(* WechatPayV2Client.processMicropay *)

Logged(e, i) == Append(log, Ev(e, i))

\* the flow reads fields of the reply that a call o of the client handed
\* back: readUnverified tells whether any such reply went unverified
ReadsOf(o, reply) == readUnverified \/ (o.kind = "return" /\ ~reply.sigOk)

\* processMicropay is entered and calls this.micropay(params)
CallMicropay ==
    /\ mpPc = "idle"
    /\ mpPc' = "micropay"
    /\ log' = Logged("micropay", "")
    /\ UNCHANGED <<now, startTime, outTradeNo, mpOutcome>>
    /\ UNCHANGED readUnverified
    /\ UNCHANGED <<nvars, fvars, gvars, pvars, svars, hvars>>

\* micropay threw: request always throws a PaymentError, which is rethrown
MicropayThrows ==
    /\ mpPc = "micropay"
    /\ \E reply \in MicropayReplies, lat \in Latencies :
        /\ request(reply).kind = "throw"
        /\ now' = now + lat
        /\ mpOutcome' = request(reply)
    /\ log' = Logged("micropayAnswer", "threw")
    /\ mpPc' = "done"
    /\ UNCHANGED <<startTime, outTradeNo>>
    /\ UNCHANGED readUnverified
    /\ UNCHANGED <<nvars, fvars, gvars, pvars, svars, hvars>>

\* return_code and result_code both SUCCESS: the result is returned
MicropaySuccess ==
    /\ mpPc = "micropay"
    /\ \E reply \in MicropayReplies, lat \in Latencies :
        /\ request(reply).kind = "return"
        /\ IsSuccess(reply)
        /\ now' = now + lat
        /\ readUnverified' = ReadsOf(request(reply), reply)
        /\ mpOutcome' = Return(reply)
    /\ log' = Logged("micropayAnswer", "success")
    /\ mpPc' = "done"
    /\ UNCHANGED <<startTime, outTradeNo>>
    /\ UNCHANGED <<nvars, fvars, gvars, pvars, svars, hvars>>

\* err_code SYSTEMERROR: sleep(5000) begins
MicropaySystemError ==
    /\ mpPc = "micropay"
    /\ \E reply \in MicropayReplies, lat \in Latencies :
        /\ request(reply).kind = "return"
        /\ ~IsSuccess(reply)
        /\ reply.err_code = "SYSTEMERROR"
        /\ now' = now + lat
        /\ readUnverified' = ReadsOf(request(reply), reply)
    /\ mpPc' = "grace"
    /\ log' = log \o <<Ev("micropayAnswer", "SYSTEMERROR"),
                       Ev("graceSleep", "")>>
    /\ UNCHANGED <<startTime, outTradeNo, mpOutcome>>
    /\ UNCHANGED <<nvars, fvars, gvars, pvars, svars, hvars>>

\* mutant: the follow-up query is sent without waiting
GraceElapsed_NoWait ==
    /\ mpPc = "grace"
    /\ mpPc' = "sysQuery"
    /\ log' = Logged("queryOrder", "")
    /\ UNCHANGED <<now, startTime, outTradeNo, mpOutcome>>
    /\ UNCHANGED readUnverified
    /\ UNCHANGED <<nvars, fvars, gvars, pvars, svars, hvars>>

\* the grace sleep ends and queryOrder is called
GraceElapsed ==
    /\ mpPc = "grace"
    /\ now' = now + GraceWait
    /\ mpPc' = "sysQuery"
    /\ log' = Logged("queryOrder", "")
    /\ UNCHANGED <<startTime, outTradeNo, mpOutcome>>
    /\ UNCHANGED readUnverified
    /\ UNCHANGED <<nvars, fvars, gvars, pvars, svars, hvars>>

\* the follow-up query threw: the PaymentError is rethrown
SysQueryThrows ==
    /\ mpPc = "sysQuery"
    /\ \E reply \in QueryReplies, lat \in Latencies :
        /\ orderCall(reply).kind = "throw"
        /\ now' = now + lat
        /\ mpOutcome' = orderCall(reply)
        /\ log' = Logged("answer", QueryClass(orderCall(reply)))
    /\ mpPc' = "done"
    /\ UNCHANGED <<startTime, outTradeNo>>
    /\ UNCHANGED readUnverified
    /\ UNCHANGED <<nvars, fvars, gvars, pvars, svars, hvars>>

\* the follow-up query reports success: its result is returned
SysQuerySuccess ==
    /\ mpPc = "sysQuery"
    /\ \E reply \in QueryReplies, lat \in Latencies :
        /\ orderCall(reply).kind = "return"
        /\ IsSuccess(reply)
        /\ now' = now + lat
        /\ readUnverified' = ReadsOf(orderCall(reply), reply)
        /\ mpOutcome' = Return(reply)
        /\ log' = Logged("answer", "success")
    /\ mpPc' = "done"
    /\ UNCHANGED <<startTime, outTradeNo>>
    /\ UNCHANGED <<nvars, fvars, gvars, pvars, svars, hvars>>

\* the trade states for which the SYSTEMERROR path calls reverseOrder
SysReverseStates == {"NOTPAY", "PAYERROR"}

\* trade_state NOTPAY or PAYERROR: reverseOrder is called
SysQueryReverse ==
    /\ mpPc = "sysQuery"
    /\ \E reply \in QueryReplies, lat \in Latencies :
        /\ orderCall(reply).kind = "return"
        /\ ~IsSuccess(reply)
        /\ reply.trade_state \in SysReverseStates
        /\ now' = now + lat
        /\ readUnverified' = ReadsOf(orderCall(reply), reply)
        /\ log' = log \o <<Ev("answer", QueryClass(orderCall(reply))),
                           Ev("reverseOrder", "")>>
    /\ mpPc' = "sysReverse"
    /\ UNCHANGED <<startTime, outTradeNo, mpOutcome>>
    /\ UNCHANGED <<nvars, fvars, gvars, pvars, svars, hvars>>

\* any other query result: the status-indeterminate error is thrown at once
SysQueryIndeterminate ==
    /\ mpPc = "sysQuery"
    /\ \E reply \in QueryReplies, lat \in Latencies :
        /\ orderCall(reply).kind = "return"
        /\ ~IsSuccess(reply)
        /\ reply.trade_state \notin SysReverseStates
        /\ now' = now + lat
        /\ readUnverified' = ReadsOf(orderCall(reply), reply)
        /\ log' = Logged("answer", QueryClass(orderCall(reply)))
    /\ mpOutcome' = Throw("NETWORK_ERROR", MsgIndeterminate)
    /\ mpPc' = "done"
    /\ UNCHANGED <<startTime, outTradeNo>>
    /\ UNCHANGED <<nvars, fvars, gvars, pvars, svars, hvars>>

\* reverseOrder returned: the status-indeterminate error is thrown
SysReverseReturns ==
    /\ mpPc = "sysReverse"
    /\ \E reply \in ReverseReplies, lat \in Latencies :
        /\ orderCall(reply).kind = "return"
        /\ now' = now + lat
    /\ log' = Logged("reverseAnswer", "returned")
    /\ mpOutcome' = Throw("NETWORK_ERROR", MsgIndeterminate)
    /\ mpPc' = "done"
    /\ UNCHANGED <<startTime, outTradeNo>>
    /\ UNCHANGED readUnverified
    /\ UNCHANGED <<nvars, fvars, gvars, pvars, svars, hvars>>

\* reverseOrder threw: it is awaited outside any inner try, so its
\* PaymentError reaches the outer catch and is rethrown
SysReverseThrows ==
    /\ mpPc = "sysReverse"
    /\ \E reply \in ReverseReplies, lat \in Latencies :
        /\ orderCall(reply).kind = "throw"
        /\ now' = now + lat
        /\ mpOutcome' = orderCall(reply)
    /\ log' = Logged("reverseAnswer", "threw")
    /\ mpPc' = "done"
    /\ UNCHANGED <<startTime, outTradeNo>>
    /\ UNCHANGED readUnverified
    /\ UNCHANGED <<nvars, fvars, gvars, pvars, svars, hvars>>

\* err_code USERPAYING: pollPaymentResult is entered, startTime = Date.now()
MicropayUserPaying ==
    /\ mpPc = "micropay"
    /\ \E reply \in MicropayReplies, lat \in Latencies :
        /\ request(reply).kind = "return"
        /\ ~IsSuccess(reply)
        /\ reply.err_code = "USERPAYING"
        /\ now' = now + lat
        /\ readUnverified' = ReadsOf(request(reply), reply)
        /\ startTime' = now + lat
    /\ log' = Logged("micropayAnswer", "USERPAYING")
    /\ mpPc' = "pollCheck"
    /\ UNCHANGED <<outTradeNo, mpOutcome>>
    /\ UNCHANGED <<nvars, fvars, gvars, pvars, svars, hvars>>

\* any other error code: a PaymentError with the gateway's text is thrown
MicropayOtherError ==
    /\ mpPc = "micropay"
    /\ \E reply \in MicropayReplies, lat \in Latencies :
        /\ request(reply).kind = "return"
        /\ ~IsSuccess(reply)
        /\ reply.err_code \notin {"SYSTEMERROR", "USERPAYING"}
        /\ now' = now + lat
        /\ readUnverified' = ReadsOf(request(reply), reply)
    /\ mpOutcome' = Throw("NETWORK_ERROR", MsgGateway)
    /\ log' = Logged("micropayAnswer", "other")
    /\ mpPc' = "done"
    /\ UNCHANGED <<startTime, outTradeNo>>
    /\ UNCHANGED <<nvars, fvars, gvars, pvars, svars, hvars>>

-----------------------------------------------------------------------------
(* WechatPayV2Client.pollPaymentResult *)

\* the loop condition Date.now() - startTime < timeout
PollContinues == now - startTime < PollTimeout

\* the condition holds: sleep(interval) begins
PollLoopEnter ==
    /\ mpPc = "pollCheck"
    /\ PollContinues
    /\ mpPc' = "pollSleep"
    /\ log' = Logged("pollSleep", "")
    /\ UNCHANGED <<now, startTime, outTradeNo, mpOutcome>>
    /\ UNCHANGED readUnverified
    /\ UNCHANGED <<nvars, fvars, gvars, pvars, svars, hvars>>

\* the sleep ends and queryOrder is called
PollSleepElapsed ==
    /\ mpPc = "pollSleep"
    /\ now' = now + PollInterval
    /\ mpPc' = "pollQuery"
    /\ log' = Logged("queryOrder", "")
    /\ UNCHANGED <<startTime, outTradeNo, mpOutcome>>
    /\ UNCHANGED readUnverified
    /\ UNCHANGED <<nvars, fvars, gvars, pvars, svars, hvars>>

\* the poll reports success: its result is returned
PollQuerySuccess ==
    /\ mpPc = "pollQuery"
    /\ \E reply \in QueryReplies, lat \in Latencies :
        /\ QueryClass(orderCall(reply)) = "success"
        /\ now' = now + lat
        /\ readUnverified' = ReadsOf(orderCall(reply), reply)
        /\ mpOutcome' = Return(reply)
    /\ log' = Logged("answer", "success")
    /\ mpPc' = "done"
    /\ UNCHANGED <<startTime, outTradeNo>>
    /\ UNCHANGED <<nvars, fvars, gvars, pvars, svars, hvars>>

\* mutant: a poll that threw re-enters the flow and charges again
AfterPoll_Resubmit(c) == IF c = "threw" THEN "idle" ELSE "pollCheck"

\* what the poll loop does after a query outcome of class c that is not a
\* success: the PaymentError thrown for PAYERROR / CLOSED is thrown inside
\* the try block, so the catch logs it and the loop goes on, as it does for
\* a query that threw and for an undecided trade state
AfterPoll(c) == "pollCheck"

PollQueryOther ==
    /\ mpPc = "pollQuery"
    /\ \E reply \in QueryReplies, lat \in Latencies :
        LET c == QueryClass(orderCall(reply)) IN
        /\ c # "success"
        /\ now' = now + lat
        /\ readUnverified' = ReadsOf(orderCall(reply), reply)
        /\ log' = Logged("answer", c)
        /\ mpPc' = AfterPoll(c)
    /\ UNCHANGED <<startTime, outTradeNo, mpOutcome>>
    /\ UNCHANGED <<nvars, fvars, gvars, pvars, svars, hvars>>

\* mutant: the timeout error is thrown with no reversal attempt
PollLoopExit_NoReverse ==
    /\ mpPc = "pollCheck"
    /\ ~PollContinues
    /\ mpPc' = "done"
    /\ mpOutcome' = Throw("NETWORK_ERROR", MsgTimeout)
    /\ UNCHANGED <<now, startTime, outTradeNo, log>>
    /\ UNCHANGED readUnverified
    /\ UNCHANGED <<nvars, fvars, gvars, pvars, svars, hvars>>

\* the deadline has passed: reverseOrder is called
PollLoopExit ==
    /\ mpPc = "pollCheck"
    /\ ~PollContinues
    /\ mpPc' = "pollReverse"
    /\ log' = Logged("reverseOrder", "")
    /\ UNCHANGED <<now, startTime, outTradeNo, mpOutcome>>
    /\ UNCHANGED readUnverified
    /\ UNCHANGED <<nvars, fvars, gvars, pvars, svars, hvars>>

\* mutant: a reversal that went through is handed back as the result
AfterPollReverse_ReturnsReversal(o) ==
    IF o.kind = "return" THEN o ELSE Throw("NETWORK_ERROR", MsgTimeout)

\* what pollPaymentResult throws after the reversal attempt with outcome o:
\* a reversal failure is caught and logged
AfterPollReverse(o) == Throw("NETWORK_ERROR", MsgTimeout)

\* reverseOrder returned or threw: the timeout error is thrown
PollReverseDone ==
    /\ mpPc = "pollReverse"
    /\ \E reply \in ReverseReplies, lat \in Latencies :
        /\ now' = now + lat
        /\ mpOutcome' = AfterPollReverse(orderCall(reply))
        /\ log' = Logged("reverseAnswer",
                         IF orderCall(reply).kind = "throw"
                         THEN "threw" ELSE "returned")
    /\ mpPc' = "done"
    /\ UNCHANGED <<startTime, outTradeNo>>
    /\ UNCHANGED readUnverified
    /\ UNCHANGED <<nvars, fvars, gvars, pvars, svars, hvars>>

NextMicropay ==
    \/ CallMicropay
    \/ MicropayThrows
    \/ MicropaySuccess
    \/ MicropaySystemError
    \/ GraceElapsed
    \/ SysQueryThrows
    \/ SysQuerySuccess
    \/ SysQueryReverse
    \/ SysQueryIndeterminate
    \/ SysReverseReturns
    \/ SysReverseThrows
    \/ MicropayUserPaying
    \/ MicropayOtherError
    \/ PollLoopEnter
    \/ PollSleepElapsed
    \/ PollQuerySuccess
    \/ PollQueryOther
    \/ PollLoopExit
    \/ PollReverseDone

-----------------------------------------------------------------------------
(* Callback payloads and provider configs *)

\* A payload is described by what the pipeline reads of it:
\*   shape      which structural check of validatePayload it fails, if any
\*   headers    the wechatpay-* signature headers (WeChat)
\*   sign_type  the sign_type field (Alipay)
\*   signedWith the algorithm under which the signature is a genuine
\*              platform signature of the signed string, or "forged"
\*   enc        the key, nonce and associated data the ciphertext was
\*              sealed with (WeChat)
\*   plain      whether the sealed text is a well-formed transaction
\*   trade_state the gateway's status code: trade_state of the sealed
\*              transaction (WeChat), trade_status (Alipay)
NoPayload ==
    [shape |-> "none", headers |-> "absent", sign_type |-> "",
     signedWith |-> "forged",
     enc |-> [key |-> "apiV3Key", nonce |-> "nonce", aad |-> "associated_data"],
     plain |-> "ok", trade_state |-> ""]

\* the gateway status codes tried: the documented ones, one the mapper does
\* not list, another gateway's code, a wrong-case code and a missing one
WechatTradeStates ==
    {"SUCCESS", "REFUND", "NOTPAY", "CLOSED", "REVOKED", "USERPAYING",
     "PAYERROR", "ACCEPT", "TRADE_SUCCESS", "success", ""}

\* validatePayload lets no empty trade_status through
AlipayTradeStates ==
    {"TRADE_SUCCESS", "TRADE_FINISHED", "TRADE_CLOSED", "WAIT_BUYER_PAY",
     "TRADE_REFUND", "SUCCESS", "trade_success"}

WechatPayloads ==
    [shape : {"noRaw", "noId", "noCipher", "ok"},
     headers : {"absent", "incomplete", "ok"},
     sign_type : {""},
     signedWith : {"RSA-SHA256", "forged"},
     enc : [key : {"apiV3Key", "associated_data"},
            nonce : {"nonce", "apiV3Key"},
            aad : {"associated_data", "nonce"}],
     plain : {"ok", "malformed"},
     trade_state : WechatTradeStates]

AlipayPayloads ==
    [shape : {"noRaw", "missingField", "noSign", "ok"},
     headers : {"absent"},
     sign_type : {"RSA2", "RSA", "MD5"},
     signedWith : {"RSA-SHA256", "RSA-SHA1", "forged"},
     enc : {NoPayload.enc},
     plain : {"ok"},
     trade_state : AlipayTradeStates]

Payloads(prov) == IF prov = "wechat" THEN WechatPayloads ELSE AlipayPayloads

\* key: the platform certificate / Alipay public key. validateConfig makes
\* alipayPublicKey non-empty; platformCertificate is optional.
Configs(prov) ==
    [enabled : BOOLEAN,
     key : IF prov = "wechat" THEN {"good", "malformed", "absent"}
           ELSE {"good", "malformed"}]

PaymentErrorCodes ==
    {"VERIFY_FAILED", "DECRYPT_FAILED", "CONFIG_ERROR", "NETWORK_ERROR",
     "UNKNOWN_PROVIDER", "INVALID_PARAMS"}

MsgDisabled == "provider not enabled"
MsgPayload == "callback payload malformed"
MsgSignature == "signature verification failed"
MsgDecrypt == "callback decryption failed"
MsgHandling == "callback handling failed"
MsgParse == "not a transaction document"

-----------------------------------------------------------------------------
(* utils/crypto *)

\* createVerify(alg).verify(formatPublicKey(key), signature, 'base64'):
\* throws for a key that is no PEM public key, otherwise tells whether the
\* signature is genuine under alg
rsaVerify(alg, signedWith, key) ==
    IF key # "good" THEN "threw"
    ELSE IF signedWith = alg THEN "true" ELSE "false"

\* each wraps what verify throws in a PaymentError(VERIFY_FAILED)
verifyWechatSignature(signedWith, key) == rsaVerify("RSA-SHA256", signedWith, key)
verifyWithRSA2(signedWith, key) == rsaVerify("RSA-SHA256", signedWith, key)
verifyWithRSA(signedWith, key) == rsaVerify("RSA-SHA1", signedWith, key)

\* aesGcmDecrypt(ciphertext, nonce, associatedData, apiV3Key): the plain
\* text if the ciphertext was sealed with exactly these, else DECRYPT_FAILED
aesGcmDecrypt(p, nonce, associatedData, apiV3Key) ==
    IF p.enc = [key |-> apiV3Key, nonce |-> nonce, aad |-> associatedData]
    THEN Return(p.plain)
    ELSE Throw("DECRYPT_FAILED", MsgDecrypt)

-----------------------------------------------------------------------------
(* The providers' pipeline steps *)

NoVerify == [success |-> FALSE, check |-> "none"]

\* WechatProvider.validatePayload / AlipayProvider.validatePayload
validatePayload(prov, p) ==
    IF p.shape = "ok" THEN Return("ok")
    ELSE Throw("INVALID_PARAMS", MsgPayload)

\* mutant: an exception of the crypto routine counts as a verified signature
CheckResult_FailOpen(r) ==
    [success |-> r # "false", check |-> r]

\* the VerifyResult for an outcome r of the crypto routine: an exception is
\* caught and reported as success: false
CheckResult(r) ==
    [success |-> r = "true", check |-> r]

\* the VerifyResult when the check cannot be attempted
CheckSkipped == [success |-> FALSE, check |-> "skipped"]

\* WechatProvider.verifySignature
WechatVerifySignature(p, cfg) ==
    IF p.headers # "ok" THEN CheckSkipped
    ELSE CheckResult(verifyWechatSignature(p.signedWith, cfg.key))

\* AlipayProvider.verifySignature
AlipayVerifySignature(p, cfg) ==
    IF p.sign_type = "RSA2"
    THEN CheckResult(verifyWithRSA2(p.signedWith, cfg.key))
    ELSE IF p.sign_type = "RSA"
         THEN CheckResult(verifyWithRSA(p.signedWith, cfg.key))
         ELSE CheckSkipped

verifySignature(prov, p, cfg) ==
    IF prov = "wechat" THEN WechatVerifySignature(p, cfg)
    ELSE AlipayVerifySignature(p, cfg)

\* WechatProvider.mapTradeStatus
WechatMapTradeStatus(tradeState) ==
    CASE tradeState = "SUCCESS" -> "SUCCESS"
      [] tradeState \in {"REFUND", "CLOSED", "REVOKED", "PAYERROR"} -> "FAIL"
      [] tradeState \in {"USERPAYING", "NOTPAY"} -> "PENDING"
      [] OTHER -> "PENDING"

\* mutant: a status the table does not list counts as a failure
AlipayMapTradeStatus_DefaultFail(tradeStatus) ==
    CASE tradeStatus \in {"TRADE_SUCCESS", "TRADE_FINISHED"} -> "SUCCESS"
      [] tradeStatus = "WAIT_BUYER_PAY" -> "PENDING"
      [] OTHER -> "FAIL"

\* AlipayProvider.mapTradeStatus
AlipayMapTradeStatus(tradeStatus) ==
    CASE tradeStatus \in {"TRADE_SUCCESS", "TRADE_FINISHED"} -> "SUCCESS"
      [] tradeStatus = "TRADE_CLOSED" -> "FAIL"
      [] tradeStatus = "WAIT_BUYER_PAY" -> "PENDING"
      [] OTHER -> "PENDING"

\* WechatProvider.transformNotification: the call passes apiV3Key, nonce,
\* associated_data in the places of aesGcmDecrypt's nonce, associatedData,
\* apiV3Key; JSON.parse and the field reads throw on a malformed document
WechatTransform(p) ==
    LET d == aesGcmDecrypt(p, "apiV3Key", "nonce", "associated_data") IN
    IF d.kind = "throw" THEN d
    ELSE IF d.value # "ok" THEN Throw("TypeError", MsgParse)
    ELSE Return([provider |-> "wechat", from |-> "decrypted",
                 tradeStatus |-> WechatMapTradeStatus(p.trade_state)])

\* AlipayProvider.transformNotification
AlipayTransform(p) ==
    Return([provider |-> "alipay", from |-> "raw",
            tradeStatus |-> AlipayMapTradeStatus(p.trade_state)])

transformNotification(prov, p) ==
    IF prov = "wechat" THEN WechatTransform(p) ELSE AlipayTransform(p)

\* the steps transformNotification begins
TransformSteps(prov) ==
    IF prov = "wechat" THEN <<"transformNotification", "aesGcmDecrypt">>
    ELSE <<"transformNotification">>

\* the catch of handleNotify: a PaymentError is rethrown, anything else is
\* wrapped
Rethrown(e) ==
    IF e.code \in PaymentErrorCodes THEN e
    ELSE Throw("UNKNOWN_PROVIDER", MsgHandling)

-----------------------------------------------------------------------------
(* BaseProvider.handleNotify *)

\* mutant: a disabled provider is let through to the pipeline
IsEnabled_Always(cfg) == TRUE

\* BaseProvider.isEnabled
IsEnabled(cfg) == cfg.enabled

\* the provider is disabled: CONFIG_ERROR before the try block
NotifyDisabled ==
    /\ nPc = "idle"
    /\ ~IsEnabled(config)
    /\ \E p \in Payloads(provider) : payload' = p
    /\ nOutcome' = Throw("CONFIG_ERROR", MsgDisabled)
    /\ nPc' = "done"
    /\ UNCHANGED <<provider, config, steps, verifyResult, transformed>>
    /\ UNCHANGED ack
    /\ UNCHANGED <<mvars, fvars, gvars, pvars, svars, hvars>>

\* validatePayload throws
NotifyInvalidPayload ==
    /\ nPc = "idle"
    /\ IsEnabled(config)
    /\ \E p \in Payloads(provider) :
        /\ validatePayload(provider, p).kind = "throw"
        /\ payload' = p
        /\ nOutcome' = Rethrown(validatePayload(provider, p))
    /\ steps' = <<"validatePayload">>
    /\ nPc' = "done"
    /\ UNCHANGED <<provider, config, verifyResult, transformed>>
    /\ UNCHANGED ack
    /\ UNCHANGED <<mvars, fvars, gvars, pvars, svars, hvars>>

\* validatePayload passes and verifySignature runs to its result
NotifyVerify ==
    /\ nPc = "idle"
    /\ IsEnabled(config)
    /\ \E p \in Payloads(provider) :
        /\ validatePayload(provider, p).kind = "return"
        /\ payload' = p
        /\ verifyResult' = verifySignature(provider, p, config)
    /\ steps' = <<"validatePayload", "verifySignature">>
    /\ nPc' = "awaitVerify"
    /\ UNCHANGED <<provider, config, transformed, nOutcome>>
    /\ UNCHANGED ack
    /\ UNCHANGED <<mvars, fvars, gvars, pvars, svars, hvars>>

\* mutant: the VerifyResult is not looked at
Verified_Ignored(vr) == TRUE

\* the test of verifyResult.success
Verified(vr) == vr.success

\* verifyResult.success is false: VERIFY_FAILED
VerifyRejected ==
    /\ nPc = "awaitVerify"
    /\ ~Verified(verifyResult)
    /\ nOutcome' = Throw("VERIFY_FAILED", MsgSignature)
    /\ nPc' = "done"
    /\ UNCHANGED <<provider, config, payload, steps, verifyResult, transformed>>
    /\ UNCHANGED ack
    /\ UNCHANGED <<mvars, fvars, gvars, pvars, svars, hvars>>

\* verifyResult.success is true: transformNotification runs
TransformCalled ==
    /\ nPc = "awaitVerify"
    /\ Verified(verifyResult)
    /\ transformed' = transformNotification(provider, payload)
    /\ steps' = steps \o TransformSteps(provider)
    /\ nPc' = "awaitTransform"
    /\ UNCHANGED <<provider, config, payload, verifyResult, nOutcome>>
    /\ UNCHANGED ack
    /\ UNCHANGED <<mvars, fvars, gvars, pvars, svars, hvars>>

\* transformNotification threw
TransformFailed ==
    /\ nPc = "awaitTransform"
    /\ transformed.kind = "throw"
    /\ nOutcome' = Rethrown(transformed)
    /\ nPc' = "done"
    /\ UNCHANGED <<provider, config, payload, steps, verifyResult, transformed>>
    /\ UNCHANGED ack
    /\ UNCHANGED <<mvars, fvars, gvars, pvars, svars, hvars>>

\* mutant: postProcess is started without waiting for the transform
PostProcessCalled_Early ==
    /\ nPc = "awaitVerify"
    /\ Verified(verifyResult)
    /\ steps' = Append(steps, "postProcess")
    /\ UNCHANGED <<nPc, provider, config, payload, verifyResult, transformed,
                   nOutcome>>
    /\ UNCHANGED ack
    /\ UNCHANGED <<mvars, fvars, gvars, pvars, svars, hvars>>

\* transformNotification returned: postProcess runs (it only logs)
PostProcessCalled ==
    /\ nPc = "awaitTransform"
    /\ transformed.kind = "return"
    /\ steps' = Append(steps, "postProcess")
    /\ nPc' = "awaitPostProcess"
    /\ UNCHANGED <<provider, config, payload, verifyResult, transformed,
                   nOutcome>>
    /\ UNCHANGED ack
    /\ UNCHANGED <<mvars, fvars, gvars, pvars, svars, hvars>>

\* postProcess settled: the notification is returned
NotifyReturns ==
    /\ nPc = "awaitPostProcess"
    /\ nOutcome' = Return(transformed.value)
    /\ nPc' = "done"
    /\ UNCHANGED <<provider, config, payload, steps, verifyResult, transformed>>
    /\ UNCHANGED ack
    /\ UNCHANGED <<mvars, fvars, gvars, pvars, svars, hvars>>

-----------------------------------------------------------------------------------------------------------------------------------------------------
(* The acknowledgment for the gateway: createResponse,                     *)
(* generateSuccessResponse and generateFailureResponse                     *)

\* a response: its HTTP status and Content-Type, and its body, which is a
\* JSON object with a code and a message (WeChat) or a text (Alipay, code
\* ""); a message or text is written as the sequence of its parts
NoAck == [status |-> 0, contentType |-> "none", code |-> "none",
          text |-> <<>>]

MsgCheckFalse == "signature does not verify"
MsgCheckThrew == "signature check raised: PaymentError: signature verification failed"
MsgCheckThrewAlipay == "signature check raised: PaymentError: alipay callback verify-sign failed"
MsgCheckSkipped == "signature check not possible"

\* verifyResult.error, by what the check came to
VerifyErrorText(prov, vr) ==
    CASE vr.check = "false" -> MsgCheckFalse
      [] vr.check = "threw" ->
             IF prov = "alipay" THEN MsgCheckThrewAlipay ELSE MsgCheckThrew
      [] OTHER -> MsgCheckSkipped

\* error.message of what handleNotify threw: the text of the error site
\* and, for VERIFY_FAILED, verifyResult.error after it
ErrorMessage(prov, outcome, vr) ==
    IF outcome.code = "VERIFY_FAILED"
    THEN <<outcome.msg, VerifyErrorText(prov, vr)>>
    ELSE <<outcome.msg>>

\* error?.includes(w), w being the two-character word for "verify-sign":
\* of the messages above only the text of the PaymentError that
\* verifyWithRSA2 / verifyWithRSA throw has it
includesVerifySign(error) ==
    \E i \in 1..Len(error) : error[i] = MsgCheckThrewAlipay

\* WechatProvider.generateSuccessResponse / generateFailureResponse;
\* error = <<>> is the argument left out
WechatSuccessResponse == [code |-> "SUCCESS", text |-> <<"ok">>]
WechatFailureResponse(error) ==
    [code |-> "FAIL",
     text |-> IF error = <<>> THEN <<"handling failed">> ELSE error]

\* AlipayProvider.generateSuccessResponse / generateFailureResponse
AlipaySuccessResponse == [code |-> "", text |-> <<"success">>]
AlipayFailureResponse(error) ==
    [code |-> "", text |-> IF error = <<>> THEN <<"failure">> ELSE error]

\* WechatProvider.createResponse(success, _error): generateFailureResponse
\* is called without an argument
WechatCreateResponse(success, error) ==
    LET body == IF success THEN WechatSuccessResponse
                ELSE WechatFailureResponse(<<>>) IN
    [status |-> IF success THEN 200 ELSE 400,
     contentType |-> "application/json",
     code |-> body.code, text |-> body.text]

\* AlipayProvider.createResponse(success, error): generateFailureResponse
\* is called without an argument
AlipayCreateResponse(success, error) ==
    LET body == IF success THEN AlipaySuccessResponse
                ELSE AlipayFailureResponse(<<>>) IN
    [status |-> IF success THEN 200
                ELSE IF includesVerifySign(error) THEN 401 ELSE 400,
     contentType |-> "text/plain",
     code |-> body.code, text |-> body.text]

createResponse(prov, success, error) ==
    IF prov = "wechat" THEN WechatCreateResponse(success, error)
    ELSE AlipayCreateResponse(success, error)

\* the caller of handleNotify builds the acknowledgment for the outcome:
\* provider.createResponse(true) after a return, and after a throw
\* provider.createResponse(false, error.message) or createResponse(false)
CreateResponse(withMessage) ==
    /\ nPc = "done"
    /\ ack = NoAck
    /\ ack' = IF nOutcome.kind = "return"
              THEN createResponse(provider, TRUE, <<>>)
              ELSE createResponse(provider, FALSE,
                       IF withMessage
                       THEN ErrorMessage(provider, nOutcome, verifyResult)
                       ELSE <<>>)
    /\ UNCHANGED <<nPc, provider, config, payload, steps, verifyResult,
                   transformed, nOutcome>>
    /\ UNCHANGED <<mvars, fvars, gvars, pvars, svars, hvars>>

NextNotify ==
    \/ NotifyDisabled
    \/ NotifyInvalidPayload
    \/ NotifyVerify
    \/ VerifyRejected
    \/ TransformCalled
    \/ TransformFailed
    \/ PostProcessCalled
    \/ NotifyReturns
    \/ \E withMessage \in BOOLEAN : CreateResponse(withMessage)

-----------------------------------------------------------------------------
(* ProviderFactory: the registry of provider constructors and the cache of *)
(* the instances it created                                                *)

\* at most MaxCreates objects are constructed in one behaviour
MaxCreates == 2

FactoryNames == {"wechat", "alipay"}

\* A provider config, as far as construction reads it.  A key that the
\* object does not have is "absent"; appId "undefined" is a key that is
\* present with a falsy value.  The other credentials are taken as given
\* and well-formed.
AbsentConfig == [enabled |-> "absent", appId |-> "absent"]
PartialConfigs ==
    [enabled : {"absent", "true", "false"},
     appId : {"absent", "wx", "16digits", "undefined"}]

\* the defaultConfig of the built-in registrations (no credentials), and one
\* of a caller's registration that carries credentials
BuiltInDefault == [enabled |-> "false", appId |-> "absent"]
DefaultConfigs == {BuiltInDefault, [enabled |-> "true", appId |-> "wx"]}

NoRegistration == [constructor |-> "none", defaultConfig |-> AbsentConfig]
Registrations ==
    [constructor : {"WechatProvider", "AlipayProvider"},
     defaultConfig : DefaultConfigs]

NoInstance == [id |-> 0, providerName |-> "none", config |-> AbsentConfig]

Void == [kind |-> "void"]
MsgRegistered == "provider already registered"
MsgUnknown == "unknown provider"
MsgNoConfig == "provider absent and no config given"
MsgMissing == "config lacks a required parameter"
MsgFormat == "appId format wrong"

\* registerBuiltInProviders, run when the module is loaded
registerBuiltInProviders ==
    [n \in FactoryNames |->
        [constructor |-> IF n = "wechat" THEN "WechatProvider"
                         ELSE "AlipayProvider",
         defaultConfig |-> BuiltInDefault]]

\* { ...defaultConfig, ...config }: every key the caller's object has wins
spread(defaultConfig, cfg) ==
    [k \in DOMAIN cfg |->
        IF cfg[k] # "absent" THEN cfg[k] ELSE defaultConfig[k]]

\* WechatProvider.validateConfig / AlipayProvider.validateConfig
validateConfig(ctor, cfg) ==
    IF cfg.appId \in {"absent", "undefined"}
    THEN Throw("CONFIG_ERROR", MsgMissing)
    ELSE IF ctor = "WechatProvider" /\ cfg.appId # "wx"
    THEN Throw("CONFIG_ERROR", MsgFormat)
    ELSE IF ctor = "AlipayProvider" /\ cfg.appId # "16digits"
    THEN Throw("CONFIG_ERROR", MsgFormat)
    ELSE Void

\* new registration.constructor(finalConfig): BaseProvider's constructor
\* stores the config and name and runs validateConfig
construct(ctor, cfg, id) ==
    LET v == validateConfig(ctor, cfg) IN
    IF v.kind = "throw" THEN v
    ELSE Return([id |-> id,
                 providerName |-> IF ctor = "WechatProvider" THEN "wechat"
                                  ELSE "alipay",
                 config |-> cfg])

\* mutant: the cache slot is taken before the constructor has validated
create_CacheFirst(regs, insts, id, name, cfg) ==
    LET registration == regs[name] IN
    IF registration = NoRegistration
    THEN [instances |-> insts, nextId |-> id,
          out |-> Throw("UNKNOWN_PROVIDER", MsgUnknown)]
    ELSE LET finalConfig == spread(registration.defaultConfig, cfg)
             made == construct(registration.constructor, finalConfig, id)
             slot == [id |-> id, providerName |-> name,
                      config |-> finalConfig] IN
         [instances |-> [insts EXCEPT ![name] = slot], nextId |-> id + 1,
          out |-> made]

\* ProviderFactory.create, as a function of the factory's state
create(regs, insts, id, name, cfg) ==
    LET registration == regs[name] IN
    IF registration = NoRegistration
    THEN [instances |-> insts, nextId |-> id,
          out |-> Throw("UNKNOWN_PROVIDER", MsgUnknown)]
    ELSE LET finalConfig == spread(registration.defaultConfig, cfg)
             made == construct(registration.constructor, finalConfig, id) IN
         IF made.kind = "throw"
         THEN [instances |-> insts, nextId |-> id, out |-> made]
         ELSE [instances |-> [insts EXCEPT ![name] = made.value],
               nextId |-> id + 1, out |-> made]

Called(op, name, registration, cfg, out) ==
    [op |-> op, name |-> name, registration |-> registration,
     config |-> cfg, out |-> out]

\* mutant: a second registration replaces the first
Register_Overwrite(name, registration) ==
    /\ factoryProviders' = [factoryProviders EXCEPT ![name] = registration]
    /\ fLast' = Called("register", name, registration, AbsentConfig, Void)
    /\ UNCHANGED <<instances, nextId>>
    /\ UNCHANGED <<mvars, nvars, gvars, pvars, svars, hvars>>

\* ProviderFactory.register
Register(name, registration) ==
    /\ IF factoryProviders[name] # NoRegistration
       THEN /\ fLast' = Called("register", name, registration, AbsentConfig,
                               Throw("CONFIG_ERROR", MsgRegistered))
            /\ UNCHANGED factoryProviders
       ELSE /\ factoryProviders' =
                   [factoryProviders EXCEPT ![name] = registration]
            /\ fLast' = Called("register", name, registration, AbsentConfig,
                               Void)
    /\ UNCHANGED <<instances, nextId>>
    /\ UNCHANGED <<mvars, nvars, gvars, pvars, svars, hvars>>

\* mutant: unregister forgets the registration and keeps the cached instance
Unregister_KeepsInstance(name) ==
    /\ factoryProviders' = [factoryProviders EXCEPT ![name] = NoRegistration]
    /\ fLast' = Called("unregister", name, NoRegistration, AbsentConfig, Void)
    /\ UNCHANGED <<instances, nextId>>
    /\ UNCHANGED <<mvars, nvars, gvars, pvars, svars, hvars>>

\* ProviderFactory.unregister
Unregister(name) ==
    /\ factoryProviders' = [factoryProviders EXCEPT ![name] = NoRegistration]
    /\ instances' = [instances EXCEPT ![name] = NoInstance]
    /\ fLast' = Called("unregister", name, NoRegistration, AbsentConfig, Void)
    /\ UNCHANGED nextId
    /\ UNCHANGED <<mvars, nvars, gvars, pvars, svars, hvars>>

\* ProviderFactory.create
Create(name, cfg) ==
    /\ nextId <= MaxCreates
    /\ LET r == create(factoryProviders, instances, nextId, name, cfg) IN
       /\ instances' = r.instances
       /\ nextId' = r.nextId
       /\ fLast' = Called("create", name, NoRegistration, cfg, r.out)
    /\ UNCHANGED factoryProviders
    /\ UNCHANGED <<mvars, nvars, gvars, pvars, svars, hvars>>

\* the config argument of getOrCreate left out
NoConfig == [enabled |-> "undefined", appId |-> "undefined"]

\* mutant: a config that is passed replaces the cached instance
GetOrCreate_Recreate(name, given, cfg) ==
    /\ nextId <= MaxCreates
    /\ IF instances[name] # NoInstance /\ ~given
       THEN /\ fLast' = Called("getOrCreate", name, NoRegistration, NoConfig,
                               Return(instances[name]))
            /\ UNCHANGED <<instances, nextId>>
       ELSE IF ~given
       THEN /\ fLast' = Called("getOrCreate", name, NoRegistration, NoConfig,
                               Throw("CONFIG_ERROR", MsgNoConfig))
            /\ UNCHANGED <<instances, nextId>>
       ELSE LET r == create(factoryProviders, instances, nextId, name, cfg) IN
            /\ instances' = r.instances
            /\ nextId' = r.nextId
            /\ fLast' = Called("getOrCreate", name, NoRegistration, cfg, r.out)
    /\ UNCHANGED factoryProviders
    /\ UNCHANGED <<mvars, nvars, gvars, pvars, svars, hvars>>

\* ProviderFactory.getOrCreate; given = FALSE is the call without a config
GetOrCreate(name, given, cfg) ==
    /\ nextId <= MaxCreates
    /\ LET passed == IF given THEN cfg ELSE NoConfig IN
       IF instances[name] # NoInstance
       THEN /\ fLast' = Called("getOrCreate", name, NoRegistration, passed,
                               Return(instances[name]))
            /\ UNCHANGED <<instances, nextId>>
       ELSE IF ~given
       THEN /\ fLast' = Called("getOrCreate", name, NoRegistration, passed,
                               Throw("CONFIG_ERROR", MsgNoConfig))
            /\ UNCHANGED <<instances, nextId>>
       ELSE LET r == create(factoryProviders, instances, nextId, name, cfg) IN
            /\ instances' = r.instances
            /\ nextId' = r.nextId
            /\ fLast' = Called("getOrCreate", name, NoRegistration, cfg, r.out)
    /\ UNCHANGED factoryProviders
    /\ UNCHANGED <<mvars, nvars, gvars, pvars, svars, hvars>>

\* the configs maps handed to createBatch: entries in insertion order
BatchConfigs ==
    {[enabled |-> "true", appId |-> "wx"],
     [enabled |-> "true", appId |-> "16digits"]}
BatchEntries == [name : FactoryNames, config : BatchConfigs]
Batches ==
    {<<e>> : e \in BatchEntries}
    \cup {b \in {<<e1, e2>> : e1 \in BatchEntries, e2 \in BatchEntries} :
              b[1].name # b[2].name}

\* the loop of createBatch: a failed create is logged and skipped
RECURSIVE createBatch(_, _, _, _, _)
createBatch(regs, insts, id, results, configs) ==
    IF configs = <<>>
    THEN [instances |-> insts, nextId |-> id, results |-> results]
    ELSE LET e == Head(configs)
             r == create(regs, insts, id, e.name, e.config) IN
         createBatch(regs, r.instances, r.nextId,
                     IF r.out.kind = "throw" THEN results
                     ELSE [results EXCEPT ![e.name] = r.out.value],
                     Tail(configs))

\* ProviderFactory.createBatch
CreateBatch(configs) ==
    /\ nextId + Len(configs) - 1 <= MaxCreates
    /\ LET r == createBatch(factoryProviders, instances, nextId,
                            [n \in FactoryNames |-> NoInstance], configs) IN
       /\ instances' = r.instances
       /\ nextId' = r.nextId
       /\ fLast' = Called("createBatch", "", NoRegistration, AbsentConfig,
                          [kind |-> "batch", results |-> r.results])
    /\ UNCHANGED factoryProviders
    /\ UNCHANGED <<mvars, nvars, gvars, pvars, svars, hvars>>

\* ProviderFactory.clearInstances
ClearInstances ==
    /\ instances' = [n \in FactoryNames |-> NoInstance]
    /\ fLast' = Called("clearInstances", "", NoRegistration, AbsentConfig,
                       Void)
    /\ UNCHANGED <<factoryProviders, nextId>>
    /\ UNCHANGED <<mvars, nvars, gvars, pvars, svars, hvars>>

\* ProviderFactory.reset
Reset ==
    /\ factoryProviders' = [n \in FactoryNames |-> NoRegistration]
    /\ instances' = [n \in FactoryNames |-> NoInstance]
    /\ fLast' = Called("reset", "", NoRegistration, AbsentConfig, Void)
    /\ UNCHANGED nextId
    /\ UNCHANGED <<mvars, nvars, gvars, pvars, svars, hvars>>

NextFactory ==
    \/ \E name \in FactoryNames, registration \in Registrations :
           Register(name, registration)
    \/ \E name \in FactoryNames : Unregister(name)
    \/ \E name \in FactoryNames, cfg \in PartialConfigs : Create(name, cfg)
    \/ \E name \in FactoryNames, cfg \in PartialConfigs :
           GetOrCreate(name, TRUE, cfg)
    \/ \E name \in FactoryNames : GetOrCreate(name, FALSE, AbsentConfig)
    \/ \E configs \in Batches : CreateBatch(configs)
    \/ ClearInstances
    \/ Reset

\* the factory as the module load leaves it, no call made yet
FactoryIdle ==
    /\ factoryProviders = registerBuiltInProviders
    /\ instances = [n \in FactoryNames |-> NoInstance]
    /\ nextId = 1
    /\ fLast = Called("none", "", NoRegistration, AbsentConfig, Void)

-----------------------------------------------------------------------------
(* PaymentManagerV2 with its HookManager, over the default factory         *)

\* handleNotify calls in flight at once
MaxCalls == 1
\* on registers a handler while fewer than MaxHooks are registered
MaxHooks == 1
\* provider objects constructed in one behaviour
MaxBuilt == 2

Calls == 1..MaxCalls

\* the method strings tried: supported ones, and one its provider does not
\* support
Methods == {"wechat.native", "wechat.qrcode", "alipay.qrcode"}

\* PaymentManagerV2.parseProviderName: method.split('.')[0]
parseProviderName(method) ==
    CASE method \in {"wechat.native", "wechat.qrcode"} -> "wechat"
      [] method = "alipay.qrcode" -> "alipay"
      [] OTHER -> ""

\* WechatProvider.getSupportedMethods / AlipayProvider.getSupportedMethods
getSupportedMethods(inst) ==
    IF inst.providerName = "wechat"
    THEN {"wechat.native", "wechat.jsapi", "wechat.h5", "wechat.app"}
    ELSE {"alipay.qrcode", "alipay.pc", "alipay.h5", "alipay.app"}

\* BaseProvider.isSupportedMethod
isSupportedMethod(inst, method) == method \in getSupportedMethods(inst)

\* BaseProvider.isEnabled: this.config.enabled, read for its truthiness
providerEnabled(inst) == inst.config.enabled = "true"

\* Map.get on the manager's providers map
get(provs, name) == IF name \in DOMAIN provs THEN provs[name] ELSE NoInstance

\* providers after clear(), and of a manager that has none
NoProviders == [n \in FactoryNames |-> NoInstance]

HookEvents == {"onNotify", "onSuccess", "onFail", "onPending"}
\* a handler is told by what it does when invoked: it returns (or resolves),
\* throws synchronously, or returns a promise that rejects
Handlers == {"hReturns", "hThrows", "hRejects"}
NoHooks == [e \in HookEvents |-> <<>>]
\* the handlers registered through onNotify / onSuccess / onFail /
\* onPending; the failing ones are registered from the config
OnHandlers == {"hReturns"}

\* the user configs tried (PaymentConfig.wechat / alipay / hooks / global)
\* none; WeChat with three handlers; both gateways, logging off;
\* WeChat without its appId beside Alipay; WeChat switched off with an
\* onSuccess handler
EmptyUserConfig ==
    [wechat |-> AbsentConfig, alipay |-> AbsentConfig, hooks |-> NoHooks,
     enableLog |-> "absent"]
UserConfigs ==
    {EmptyUserConfig,
     [EmptyUserConfig EXCEPT !.wechat = [enabled |-> "true", appId |-> "wx"],
          !.hooks = [NoHooks EXCEPT !["onNotify"] = <<"hThrows", "hReturns">>,
                                    !["onFail"] = <<"hRejects">>]],
     [EmptyUserConfig EXCEPT !.wechat = [enabled |-> "true", appId |-> "wx"],
          !.alipay = [enabled |-> "true", appId |-> "16digits"],
          !.enableLog = "false"],
     [EmptyUserConfig EXCEPT
          !.wechat = [enabled |-> "true", appId |-> "absent"],
          !.alipay = [enabled |-> "true", appId |-> "16digits"]],
     [EmptyUserConfig EXCEPT
          !.wechat = [enabled |-> "false", appId |-> "wx"],
          !.hooks = [NoHooks EXCEPT !["onSuccess"] = <<"hRejects">>]]}

\* PaymentManagerV2.mergeConfig: the defaults have global settings only
mergeConfig(userConfig) ==
    [userConfig EXCEPT !.enableLog = IF @ = "absent" THEN "true" ELSE @]

\* a key written out in an object literal is present, be it undefined
explicit(v) == IF v = "absent" THEN "undefined" ELSE v

\* PaymentManagerV2.initializeProviders: a provider whose creation fails is
\* logged and left out
initializeProviders(cfg, provs, regs, insts, id) ==
    LET w == IF cfg.wechat.enabled = "true"
             THEN create(regs, insts, id, "wechat",
                         [enabled |-> cfg.wechat.enabled,
                          appId |-> explicit(cfg.wechat.appId)])
             ELSE [instances |-> insts, nextId |-> id, out |-> Void]
        p1 == IF w.out.kind = "return"
              THEN [provs EXCEPT !["wechat"] = w.out.value] ELSE provs
        a == IF cfg.alipay.enabled = "true"
             THEN create(regs, w.instances, w.nextId, "alipay",
                         [enabled |-> cfg.alipay.enabled,
                          appId |-> explicit(cfg.alipay.appId)])
             ELSE [instances |-> w.instances, nextId |-> w.nextId,
                   out |-> Void]
        p2 == IF a.out.kind = "return"
              THEN [p1 EXCEPT !["alipay"] = a.out.value] ELSE p1
    IN [providers |-> p2, instances |-> a.instances, nextId |-> a.nextId]

\* PaymentManagerV2.initializeHooks: hookManager.on for every configured
\* handler (HookManager.on appends)
initializeHooks(registry, cfg) ==
    [e \in HookEvents |-> registry[e] \o cfg.hooks[e]]

\* new PaymentManagerV2(userConfig)
PaymentManagerV2(userConfig, regs, insts, id) ==
    LET c == mergeConfig(userConfig)
        p == initializeProviders(c, NoProviders, regs, insts, id) IN
    [config |-> c, providers |-> p.providers, instances |-> p.instances,
     nextId |-> p.nextId, hooks |-> initializeHooks(NoHooks, c)]

\* mutant: the rebuild runs over the old map and the old registry
updateConfig_NoClear(newConfig, provs, registry, regs, insts, id) ==
    LET c == mergeConfig(newConfig)
        p == initializeProviders(c, provs, regs, insts, id) IN
    [config |-> c, providers |-> p.providers, instances |-> p.instances,
     nextId |-> p.nextId, hooks |-> initializeHooks(registry, c)]

\* PaymentManagerV2.updateConfig: providers.clear() and hookManager.clear()
\* come before the two initialize calls
updateConfig(newConfig, provs, registry, regs, insts, id) ==
    LET c == mergeConfig(newConfig)
        p == initializeProviders(c, NoProviders, regs, insts, id) IN
    [config |-> c, providers |-> p.providers, instances |-> p.instances,
     nextId |-> p.nextId, hooks |-> initializeHooks(NoHooks, c)]

MsgNotFound == "provider not found"
MsgNotEnabled == "manager: provider not enabled"
MsgMethod == "payment method not supported"
MsgCallback == "callback handling failed"

\* mutant: a disabled provider is handed out like an enabled one
getProvider_NoEnabledCheck(found) ==
    IF found = NoInstance THEN Throw("UNKNOWN_PROVIDER", MsgNotFound)
    ELSE Return(found)

\* PaymentManagerV2.getProvider, on what providers.get returned
getProvider(found) ==
    IF found = NoInstance THEN Throw("UNKNOWN_PROVIDER", MsgNotFound)
    ELSE IF ~providerEnabled(found) THEN Throw("CONFIG_ERROR", MsgNotEnabled)
    ELSE Return(found)

\* what provider.handleNotify(payload) can settle with: the unified
\* notification of this instance, with any status its mapper yields, or a
\* PaymentError of the pipeline
handleNotifyOutcomes(inst) ==
    IF ~providerEnabled(inst) THEN {Throw("CONFIG_ERROR", MsgDisabled)}
    ELSE {Return([tradeStatus |-> s, by |-> inst.id]) :
             s \in IF inst.providerName = "wechat"
                   THEN {WechatMapTradeStatus(c) : c \in WechatTradeStates}
                   ELSE {AlipayMapTradeStatus(c) : c \in AlipayTradeStates}}
         \cup {Throw("VERIFY_FAILED", MsgSignature)}

Invocations(event, hs) ==
    [i \in 1..Len(hs) |-> [event |-> event, handler |-> hs[i]]]

\* mutant: a plain loop over the handlers awaited with Promise.all
emit_Unguarded(event, registry) ==
    LET hs == registry[event]
        bad == {i \in 1..Len(hs) : hs[i] # "hReturns"}
        stop == IF \E i \in bad : hs[i] = "hThrows"
                THEN CHOOSE i \in bad :
                         /\ hs[i] = "hThrows"
                         /\ \A j \in bad : hs[j] = "hThrows" => i <= j
                ELSE Len(hs) IN
    [handlers |-> hs,
     invoked |-> Invocations(event, SubSeq(hs, 1, stop)),
     settles |-> IF bad = {} THEN Void ELSE Throw("Error", "handler failed")]

\* HookManager.emit: every handler of the event is invoked inside its own
\* try/catch, and Promise.allSettled waits for the promises: the emit
\* resolves whatever the handlers did
emit(event, registry) ==
    LET hs == registry[event] IN
    [handlers |-> hs, invoked |-> Invocations(event, hs), settles |-> Void]

\* mutant: a failed payment is reported to the pending handlers
statusEvent_Swapped(tradeStatus) ==
    CASE tradeStatus = "SUCCESS" -> "onSuccess"
      [] tradeStatus = "FAIL" -> "onPending"
      [] tradeStatus = "PENDING" -> "onFail"
      [] OTHER -> "none"

\* the switch of callStatusHooks
statusEvent(tradeStatus) ==
    CASE tradeStatus = "SUCCESS" -> "onSuccess"
      [] tradeStatus = "FAIL" -> "onFail"
      [] tradeStatus = "PENDING" -> "onPending"
      [] OTHER -> "none"

\* one call of PaymentManagerV2.handleNotify; registered is the hook
\* registry as it was when the call began
NoCall ==
    [pc |-> "idle", method |-> "", found |-> NoInstance,
     sawSettled |-> TRUE, invoked |-> FALSE,
     afterDestroy |-> FALSE, registered |-> NoHooks, result |-> None,
     emitted |-> <<>>, fired |-> <<>>, pending |-> Void, outcome |-> None]

NoUpdate == [is |-> FALSE]

\* the catch block of handleNotify: a PaymentError is rethrown, anything
\* else is wrapped
Caught(error) ==
    IF error.code \in PaymentErrorCodes THEN error
    ELSE Throw("UNKNOWN_PROVIDER", MsgCallback)

\* handleNotify up to its first await: lookup, method check, and the start
\* of provider.handleNotify
HandleNotify(c, method) ==
    /\ calls[c].pc \in {"idle", "done"}
    /\ LET found == get(providers, parseProviderName(method))
           got == getProvider(found)
           begun == [NoCall EXCEPT !.method = method, !.found = found,
                                   !.sawSettled = (providers = settled),
                                   !.afterDestroy = destroyed,
                                   !.registered = hooks] IN
       calls' = [calls EXCEPT ![c] =
           IF got.kind = "throw"
           THEN [begun EXCEPT !.pc = "done", !.outcome = Caught(got)]
           ELSE IF ~isSupportedMethod(got.value, method)
           THEN [begun EXCEPT !.pc = "done",
                     !.outcome = Throw("INVALID_PARAMS", MsgMethod)]
           ELSE [begun EXCEPT !.pc = "provider", !.invoked = TRUE]]
    /\ UNCHANGED <<mConfig, providers, settled, hooks, destroyed, lastUpdate>>
    /\ UNCHANGED <<mvars, nvars, fvars, pvars, svars, hvars>>

\* provider.handleNotify settles; on a notification callStatusHooks begins
\* and emits onNotify
ProviderSettles(c, res) ==
    /\ calls[c].pc = "provider"
    /\ res \in handleNotifyOutcomes(calls[c].found)
    /\ calls' = [calls EXCEPT ![c] =
           IF res.kind = "throw"
           THEN [@ EXCEPT !.pc = "done", !.result = res,
                          !.outcome = Caught(res)]
           ELSE LET e == emit("onNotify", hooks) IN
                [@ EXCEPT !.pc = "onNotify", !.result = res,
                          !.emitted = <<[event |-> "onNotify",
                                         handlers |-> e.handlers]>>,
                          !.fired = e.invoked, !.pending = e.settles]]
    /\ UNCHANGED <<mConfig, providers, settled, hooks, destroyed, lastUpdate>>
    /\ UNCHANGED <<mvars, nvars, fvars, pvars, svars, hvars>>

\* the onNotify emit settles; the switch emits the status event
NotifySettled(c) ==
    /\ calls[c].pc = "onNotify"
    /\ LET call == calls[c]
           ev == statusEvent(call.result.value.tradeStatus)
           e == emit(ev, hooks) IN
       calls' = [calls EXCEPT ![c] =
           IF call.pending.kind = "throw"
           THEN [call EXCEPT !.pc = "done", !.outcome = Caught(call.pending)]
           ELSE IF ev = "none" THEN [call EXCEPT !.pc = "status"]
           ELSE [call EXCEPT !.pc = "status",
                             !.emitted = Append(@, [event |-> ev,
                                            handlers |-> e.handlers]),
                             !.fired = @ \o e.invoked,
                             !.pending = e.settles]]
    /\ UNCHANGED <<mConfig, providers, settled, hooks, destroyed, lastUpdate>>
    /\ UNCHANGED <<mvars, nvars, fvars, pvars, svars, hvars>>

\* the status emit settles; handleNotify returns the notification
StatusSettled(c) ==
    /\ calls[c].pc = "status"
    /\ LET call == calls[c] IN
       calls' = [calls EXCEPT ![c] =
           IF call.pending.kind = "throw"
           THEN [call EXCEPT !.pc = "done", !.outcome = Caught(call.pending)]
           ELSE [call EXCEPT !.pc = "done",
                             !.outcome = Return(call.result.value)]]
    /\ UNCHANGED <<mConfig, providers, settled, hooks, destroyed, lastUpdate>>
    /\ UNCHANGED <<mvars, nvars, fvars, pvars, svars, hvars>>

\* mutant: the update yields between providers.clear() and the rebuild
UpdateConfig_Yielding(newConfig) ==
    /\ mConfig' = mergeConfig(newConfig)
    /\ providers' = NoProviders
    /\ lastUpdate' = NoUpdate
    /\ UNCHANGED <<settled, hooks, destroyed, calls>>
    /\ UNCHANGED <<mvars, nvars, fvars, pvars, svars, hvars>>

\* PaymentManagerV2.updateConfig: one synchronous run
UpdateConfig(newConfig) ==
    /\ LET u == updateConfig(newConfig, providers, hooks, factoryProviders,
                             instances, nextId) IN
       /\ u.nextId <= MaxBuilt + 1
       /\ mConfig' = u.config
       /\ providers' = u.providers
       /\ settled' = u.providers
       /\ hooks' = u.hooks
       /\ instances' = u.instances
       /\ nextId' = u.nextId
    /\ lastUpdate' = [is |-> TRUE, newConfig |-> newConfig]
    /\ UNCHANGED <<destroyed, calls>>
    /\ UNCHANGED <<factoryProviders, fLast>>
    /\ UNCHANGED <<mvars, nvars, pvars, svars, hvars>>

\* PaymentManagerV2.destroy
Destroy ==
    /\ providers' = NoProviders
    /\ settled' = NoProviders
    /\ hooks' = NoHooks
    /\ destroyed' = TRUE
    /\ lastUpdate' = NoUpdate
    /\ UNCHANGED <<mConfig, calls>>
    /\ UNCHANGED <<mvars, nvars, fvars, pvars, svars, hvars>>

\* PaymentManagerV2.addProvider with a provider the caller constructed
AddProvider(name, enabled) ==
    /\ nextId <= MaxBuilt
    /\ LET made == construct(registerBuiltInProviders[name].constructor,
                             [enabled |-> enabled,
                              appId |-> IF name = "wechat" THEN "wx"
                                        ELSE "16digits"],
                             nextId) IN
       /\ providers' = [providers EXCEPT ![name] = made.value]
       /\ settled' = [providers EXCEPT ![name] = made.value]
    /\ nextId' = nextId + 1
    /\ lastUpdate' = NoUpdate
    /\ UNCHANGED <<mConfig, hooks, destroyed, calls>>
    /\ UNCHANGED <<factoryProviders, instances, fLast>>
    /\ UNCHANGED <<mvars, nvars, pvars, svars, hvars>>

\* PaymentManagerV2.removeProvider
RemoveProvider(name) ==
    /\ providers' = [providers EXCEPT ![name] = NoInstance]
    /\ settled' = [providers EXCEPT ![name] = NoInstance]
    /\ lastUpdate' = NoUpdate
    /\ UNCHANGED <<mConfig, hooks, destroyed, calls>>
    /\ UNCHANGED <<mvars, nvars, fvars, pvars, svars, hvars>>

HookCount == Len(hooks["onNotify"]) + Len(hooks["onSuccess"])
             + Len(hooks["onFail"]) + Len(hooks["onPending"])

\* PaymentManagerV2.onNotify / onSuccess / onFail / onPending:
\* HookManager.on
On(event, handler) ==
    /\ HookCount < MaxHooks
    /\ hooks' = [hooks EXCEPT ![event] = Append(@, handler)]
    /\ lastUpdate' = NoUpdate
    /\ UNCHANGED <<mConfig, providers, settled, destroyed, calls>>
    /\ UNCHANGED <<mvars, nvars, fvars, pvars, svars, hvars>>

NextManager ==
    \/ \E c \in Calls, method \in Methods : HandleNotify(c, method)
    \/ \E c \in Calls, res \in UNION {handleNotifyOutcomes(calls[k].found) :
                                         k \in Calls} :
           ProviderSettles(c, res)
    \/ \E c \in Calls : NotifySettled(c)
    \/ \E c \in Calls : StatusSettled(c)
    \/ \E newConfig \in UserConfigs : UpdateConfig(newConfig)
    \/ Destroy
    \/ \E name \in FactoryNames, enabled \in {"true", "false"} :
           AddProvider(name, enabled)
    \/ \E name \in FactoryNames : RemoveProvider(name)
    \/ \E event \in HookEvents, handler \in OnHandlers : On(event, handler)

\* no manager call made: a manager constructed without a config
ManagerIdle ==
    /\ mConfig = mergeConfig(EmptyUserConfig)
    /\ providers = NoProviders
    /\ settled = NoProviders
    /\ hooks = NoHooks
    /\ calls = [c \in Calls |-> NoCall]
    /\ destroyed = FALSE
    /\ lastUpdate = NoUpdate

-----------------------------------------------------------------------------
(* One Provider object: construction, updateConfig, createOrder,           *)
(* queryOrder and refund over WechatPayV3Client and AlipayClient           *)

\* a method string is the concatenation of its tokens
Prefixes == {"wechat.", "alipay."}
SubMethods == {"native", "jsapi", "h5", "app", "qrcode", "pc", "bogus"}
MethodStrings ==
    {<<t>> : t \in SubMethods}
    \cup {<<p, t>> : p \in Prefixes, t \in SubMethods}
    \cup {<<"wechat.", "wechat.", "native">>, <<"alipay.", "alipay.", "pc">>}

\* String.prototype.replace(prefix, ''): the first occurrence goes
replace(method, prefix) ==
    IF \E i \in 1..Len(method) : method[i] = prefix
    THEN LET i == CHOOSE k \in 1..Len(method) :
                      /\ method[k] = prefix
                      /\ \A j \in 1..(k - 1) : method[j] # prefix IN
         SubSeq(method, 1, i - 1) \o SubSeq(method, i + 1, Len(method))
    ELSE method

\* the supportedMethods arrays
supportedMethods(name) ==
    IF name = "wechat" THEN {"native", "jsapi", "h5", "app"}
    ELSE {"qrcode", "pc", "h5", "app"}

\* supportedMethods.includes(m)
includes(supported, m) == Len(m) = 1 /\ m[1] \in supported

\* a request field is undefined, the empty string or a value
truthy(v) == v \notin {"undefined", ""}

TradeNos == {"undefined", "", "T1"}
OutTradeNos == {"undefined", "", "O1"}
Urls == {"undefined", "https://notify"}
Openids == {"undefined", "openid"}
RefundAmounts == {50}

NoRequest ==
    [op |-> "none", method |-> <<>>, notifyUrl |-> "undefined",
     openid |-> "undefined", tradeNo |-> "undefined",
     outTradeNo |-> "undefined", refundAmount |-> 0]

\* what fetch brings back: a rejection (network failure, abort on timeout)
\* or a response.  The body is text (no JSON content type), the gateway's
\* error document, a JSON object without the fields of the API called
\* ("bare"), the documented response ("full"), or, to a query, the order
\* document of an unpaid order, which has no payer ("nopayer"; to any other
\* call it is as "bare").  Alipay amounts are decimal strings of
\* yuan, written here as their number of hundredths.
Totals == {100, 250}
States == {"SUCCESS", "CLOSED"}
Statuses == {200, 404}
NoReply == [kind |-> "none", status |-> 0, shape |-> "none", total |-> 0,
            state |-> ""]
Replies ==
    {[kind |-> "reject", status |-> 0, shape |-> "none", total |-> 0,
      state |-> ""]}
    \cup {[kind |-> "response", status |-> s, shape |-> sh, total |-> 0,
           state |-> ""] :
              s \in Statuses, sh \in {"text", "error", "bare"}}
    \cup {[kind |-> "response", status |-> 200, shape |-> sh, total |-> t,
           state |-> st] :
              sh \in {"nopayer", "full"}, t \in Totals, st \in States}

MsgFetch == "network request failed"
MsgSign == "signature generation failed"
MsgV3Business == "wechat API request failed: code message"
MsgV3Status == "wechat API request failed: status statusText"
MsgAliStatus == "alipay API request failed: status statusText"
MsgAliFormat == "alipay API response format wrong"
MsgAliBusiness == "alipay API error: code msg"
MsgUnsupported == "payment method not supported"
MsgNotifyUrl == "notify_url is required"
MsgOpenid == "JSAPI needs an openid"
MsgSwitchDefault == "wechat payment method not supported"
MsgNeedId == "tradeNo or outTradeNo must be given"
MsgQueryFailed == "query of the original order failed"
MsgTypeError == "cannot read properties of undefined"

\* HttpClient.request
HttpRequest(reply) ==
    IF reply.kind = "reject" THEN Throw("NETWORK_ERROR", MsgFetch)
    ELSE Return(reply)

\* WechatPayV3Client.request, once the Authorization header is signed
V3Request(reply) ==
    LET response == HttpRequest(reply) IN
    IF response.kind = "throw" THEN response
    ELSE IF reply.status >= 400
    THEN IF reply.shape = "error"
         THEN Throw("NETWORK_ERROR", MsgV3Business)
         ELSE Throw("NETWORK_ERROR", MsgV3Status)
    ELSE Return(reply)

\* AlipayClient.request, once the parameters are signed
AlipayRequest(reply) ==
    LET response == HttpRequest(reply) IN
    IF response.kind = "throw" THEN response
    ELSE IF reply.status >= 400
    THEN Throw("NETWORK_ERROR", MsgAliStatus)
    ELSE IF reply.shape = "text"
    THEN Throw("NETWORK_ERROR", MsgAliFormat)
    ELSE IF reply.shape = "error"
    THEN Throw("NETWORK_ERROR", MsgAliBusiness)
    ELSE Return(reply)

ClientRequest(name, reply) ==
    IF name = "wechat" THEN V3Request(reply) ELSE AlipayRequest(reply)

\* the results of the three operations
NoPaymentData ==
    [qrCode |-> "undefined", payParams |-> "undefined",
     payUrl |-> "undefined", payForm |-> "undefined",
     orderInfo |-> "undefined"]
NoOrderInfo == [tradeStatus |-> "undefined", totalAmount |-> 0]
NoRefundInfo == [refundStatus |-> "undefined"]

CreateOk(paymentData) ==
    Return([success |-> TRUE, error |-> "undefined",
            paymentData |-> paymentData])
QueryOk(orderInfo) ==
    Return([success |-> TRUE, error |-> "undefined", orderInfo |-> orderInfo])
RefundOk(refundInfo) ==
    Return([success |-> TRUE, error |-> "undefined",
            refundInfo |-> refundInfo])

\* mutant: a PaymentError is thrown on to the caller
Failed_Rethrow(op, error) ==
    IF error.code \in {"NETWORK_ERROR", "CONFIG_ERROR"} THEN error
    ELSE IF op = "createOrder"
    THEN Return([success |-> FALSE, error |-> error.msg,
                 paymentData |-> NoPaymentData])
    ELSE IF op = "queryOrder"
    THEN Return([success |-> FALSE, error |-> error.msg,
                 orderInfo |-> NoOrderInfo])
    ELSE Return([success |-> FALSE, error |-> error.msg,
                 refundInfo |-> NoRefundInfo])

\* the catch clause of each operation: everything thrown is an Error, its
\* message becomes the result's error
Failed(op, error) ==
    IF op = "createOrder"
    THEN Return([success |-> FALSE, error |-> error.msg,
                 paymentData |-> NoPaymentData])
    ELSE IF op = "queryOrder"
    THEN Return([success |-> FALSE, error |-> error.msg,
                 orderInfo |-> NoOrderInfo])
    ELSE Return([success |-> FALSE, error |-> error.msg,
                 refundInfo |-> NoRefundInfo])

Error(m) == Throw("Error", m)
TypeError == Throw("TypeError", MsgTypeError)

\* one HTTP request on the wire, and what the client made of its answer
Sent(api, by, id, total, refund) ==
    [api |-> api, by |-> by, id |-> id, total |-> total, refund |-> refund,
     reply |-> NoReply, out |-> None]

Answer(w, name, reply) ==
    [i \in 1..Len(w) |->
        IF i = Len(w)
        THEN [w[i] EXCEPT !.reply = reply, !.out = ClientRequest(name, reply)]
        ELSE w[i]]

NoProviderCall ==
    [op |-> "none", name |-> "none", arg |-> AbsentConfig,
     before |-> AbsentConfig, out |-> Void]

Constructor(name) ==
    IF name = "wechat" THEN "WechatProvider" ELSE "AlipayProvider"

\* new WechatProvider(config) / new AlipayProvider(config)
NewProvider(name, cfg, ok) ==
    /\ pInstance = NoInstance
    /\ LET made == construct(Constructor(name), cfg, 1) IN
       /\ pInstance' = IF made.kind = "throw" THEN NoInstance ELSE made.value
       /\ pLast' = [op |-> "new", name |-> name, arg |-> cfg,
                    before |-> AbsentConfig, out |-> made]
    /\ keyOk' = ok
    /\ UNCHANGED <<opPc, opReq, wire, totalAmount, opOutcome>>
    /\ UNCHANGED <<mvars, nvars, fvars, gvars, svars, hvars>>

\* BaseProvider.updateConfig: the merged config is stored, then validated
ProviderUpdateConfig(newConfig) ==
    /\ pInstance # NoInstance
    /\ opPc = "idle"
    /\ LET merged == spread(pInstance.config, newConfig) IN
       /\ pInstance' = [pInstance EXCEPT !.config = merged]
       /\ pLast' = [op |-> "updateConfig",
                    name |-> pInstance.providerName, arg |-> newConfig,
                    before |-> pInstance.config,
                    out |-> validateConfig(
                                Constructor(pInstance.providerName), merged)]
    /\ UNCHANGED <<keyOk, opPc, opReq, wire, totalAmount, opOutcome>>
    /\ UNCHANGED <<mvars, nvars, fvars, gvars, svars, hvars>>

\* the one operation of the model begins on an existing object
Ready == pInstance # NoInstance /\ opPc = "idle"

\* the operation ends with this result
Finish(out) ==
    /\ opPc' = "done"
    /\ opOutcome' = out

\* a client method is called: the request is signed, which throws on a key
\* that cannot sign, and then put on the wire
Call(op, pc, w, call) ==
    IF keyOk
    THEN /\ wire' = Append(w, call)
         /\ opPc' = pc
         /\ opOutcome' = None
    ELSE /\ wire' = w
         /\ Finish(Failed(op, Throw("CONFIG_ERROR", MsgSign)))

\* mutant: an unsupported method falls back to the provider's first one
resolve_Fallback(name, method) ==
    LET m == replace(method, IF name = "wechat" THEN "wechat." ELSE "alipay.") IN
    IF includes(supportedMethods(name), m) THEN m[1]
    ELSE IF name = "wechat" THEN "native" ELSE "qrcode"

\* createOrder's method.replace(prefix, '') and supportedMethods.includes
resolve(name, method) ==
    LET m == replace(method, IF name = "wechat" THEN "wechat." ELSE "alipay.") IN
    IF includes(supportedMethods(name), m) THEN m[1] ELSE "unsupported"

\* WechatProvider.createOrder / AlipayProvider.createOrder, to the first await
CreateOrder(method, notifyUrl, openid) ==
    /\ Ready
    /\ opReq' = [NoRequest EXCEPT !.op = "createOrder", !.method = method,
                                  !.notifyUrl = notifyUrl, !.openid = openid]
    /\ totalAmount' = 0
    /\ LET name == pInstance.providerName
           sub == resolve(name, method)
           fails(m) == /\ wire' = <<>>
                       /\ Finish(Failed("createOrder", Error(m))) IN
       IF sub = "unsupported" THEN fails(MsgUnsupported)
       ELSE IF name = "wechat"
       THEN IF ~truthy(notifyUrl) THEN fails(MsgNotifyUrl)
            ELSE IF sub = "jsapi" /\ ~truthy(openid) THEN fails(MsgOpenid)
            ELSE IF sub = "app" THEN fails(MsgSwitchDefault)
            ELSE Call("createOrder", "create", <<>>,
                      Sent(sub, "none", "undefined", 0, 0))
       ELSE IF sub \in {"qrcode", "app"}
       THEN Call("createOrder", "create", <<>>,
                 Sent(IF sub = "qrcode"
                      THEN "alipay.trade.create FACE_TO_FACE_PAYMENT"
                      ELSE "alipay.trade.create QUICK_MSECURITY_PAY",
                      "none", "undefined", 0, 0))
       \* tradeWapPay / tradePagePay sign the parameters and build the URL or
       \* the form themselves
       ELSE /\ wire' = <<>>
            /\ Finish(IF ~keyOk
                      THEN Failed("createOrder", Throw("CONFIG_ERROR", MsgSign))
                      ELSE IF sub = "h5"
                      THEN CreateOk([NoPaymentData EXCEPT !.payUrl = "url"])
                      ELSE CreateOk([NoPaymentData EXCEPT !.payForm = "form"]))
    /\ UNCHANGED <<pInstance, keyOk, pLast>>
    /\ UNCHANGED <<mvars, nvars, fvars, gvars, svars, hvars>>

\* createOrder from the client's answer on
CreateAnswered(reply) ==
    /\ opPc = "create"
    /\ LET name == pInstance.providerName
           sub == resolve(name, opReq.method)
           result == ClientRequest(name, reply)
           field(v) == IF reply.shape = "full" THEN v ELSE "undefined" IN
       /\ wire' = Answer(wire, name, reply)
       /\ Finish(
            IF result.kind = "throw" THEN Failed("createOrder", result)
            ELSE IF name = "wechat"
            THEN CASE sub = "native" ->
                        CreateOk([NoPaymentData EXCEPT
                                     !.qrCode = field("code_url")])
                   [] sub = "jsapi" ->
                        CreateOk([NoPaymentData EXCEPT
                                     !.payParams = "payParams"])
                   [] OTHER ->
                        CreateOk([NoPaymentData EXCEPT
                                     !.payUrl = field("h5_url")])
            ELSE CASE sub = "qrcode" ->
                        CreateOk([NoPaymentData EXCEPT !.qrCode =
                            IF reply.shape = "full"
                            THEN "https://qr.alipay.com/qr_code"
                            ELSE "https://qr.alipay.com/undefined"])
                   [] OTHER ->
                        CreateOk([NoPaymentData EXCEPT
                                     !.orderInfo = "result"]))
    /\ UNCHANGED <<pInstance, keyOk, pLast, opReq, totalAmount>>
    /\ UNCHANGED <<mvars, nvars, fvars, gvars, svars, hvars>>

\* request.tradeNo is looked at first, request.outTradeNo second
lookup(req) ==
    IF truthy(req.tradeNo) THEN "tradeNo"
    ELSE IF truthy(req.outTradeNo) THEN "outTradeNo"
    ELSE "none"

idOf(req) == IF lookup(req) = "tradeNo" THEN req.tradeNo ELSE req.outTradeNo

\* WechatProvider.queryOrder / AlipayProvider.queryOrder, to the await
QueryOrder(tradeNo, outNo) ==
    /\ Ready
    /\ LET req == [NoRequest EXCEPT !.op = "queryOrder", !.tradeNo = tradeNo,
                                    !.outTradeNo = outNo]
           name == pInstance.providerName IN
       /\ opReq' = req
       /\ IF lookup(req) = "none"
          THEN /\ wire' = <<>>
               /\ Finish(Failed("queryOrder", Error(MsgNeedId)))
          ELSE Call("queryOrder", "query", <<>>,
                    Sent(IF name = "alipay" THEN "alipay.trade.query"
                         ELSE IF lookup(req) = "tradeNo"
                         THEN "transactions/id"
                         ELSE "transactions/out-trade-no",
                         lookup(req), idOf(req), 0, 0))
    /\ totalAmount' = 0
    /\ UNCHANGED <<pInstance, keyOk, pLast>>
    /\ UNCHANGED <<mvars, nvars, fvars, gvars, svars, hvars>>

\* WechatProvider.queryOrder from the client's answer on: reading
\* result.amount.total and result.payer.openid throws on a body without them
WechatQueryResult(reply) ==
    LET result == V3Request(reply) IN
    IF result.kind = "throw" THEN Failed("queryOrder", result)
    ELSE IF reply.shape # "full" THEN Failed("queryOrder", TypeError)
    ELSE QueryOk([tradeStatus |-> WechatMapTradeStatus(reply.state),
                  totalAmount |-> reply.total])

\* AlipayProvider.queryOrder from the client's answer on; the amount is
\* Math.round(parseFloat(total_amount) * 100), NaN (here -1) without one
AlipayQueryResult(reply) ==
    LET result == AlipayRequest(reply) IN
    IF result.kind = "throw" THEN Failed("queryOrder", result)
    ELSE IF reply.shape = "bare"
    THEN QueryOk([tradeStatus |-> AlipayMapTradeStatus("undefined"),
                  totalAmount |-> -1])
    ELSE QueryOk([tradeStatus |-> AlipayMapTradeStatus(reply.state),
                  totalAmount |-> reply.total])

QueryAnswered(reply) ==
    /\ opPc = "query"
    /\ wire' = Answer(wire, pInstance.providerName, reply)
    /\ Finish(IF pInstance.providerName = "wechat"
              THEN WechatQueryResult(reply)
              ELSE AlipayQueryResult(reply))
    /\ UNCHANGED <<pInstance, keyOk, pLast, opReq, totalAmount>>
    /\ UNCHANGED <<mvars, nvars, fvars, gvars, svars, hvars>>

\* WechatProvider.refund to its first await, inside this.queryOrder;
\* AlipayProvider.refund to its await
Refund(tradeNo, outNo, refundAmount) ==
    /\ Ready
    /\ LET req == [NoRequest EXCEPT !.op = "refund", !.tradeNo = tradeNo,
                                    !.outTradeNo = outNo,
                                    !.refundAmount = refundAmount]
           name == pInstance.providerName IN
       /\ opReq' = req
       /\ IF lookup(req) = "none"
          THEN /\ wire' = <<>>
               /\ Finish(Failed("refund", Error(MsgNeedId)))
          ELSE IF name = "alipay"
          THEN Call("refund", "refund", <<>>,
                    Sent("alipay.trade.refund", lookup(req), idOf(req), 0,
                         refundAmount))
          ELSE IF keyOk
          THEN Call("refund", "refundQuery", <<>>,
                    Sent(IF lookup(req) = "tradeNo" THEN "transactions/id"
                         ELSE "transactions/out-trade-no",
                         lookup(req), idOf(req), 0, 0))
          \* queryOrder has caught the signer's error and returned a failure
          ELSE /\ wire' = <<>>
               /\ Finish(Failed("refund", Error(MsgQueryFailed)))
    /\ totalAmount' = 0
    /\ UNCHANGED <<pInstance, keyOk, pLast>>
    /\ UNCHANGED <<mvars, nvars, fvars, gvars, svars, hvars>>

\* mutant: the refund goes out whatever the query said
RefundQueryAnswered_Blind(reply) ==
    /\ opPc = "refundQuery"
    /\ totalAmount' = reply.total
    /\ Call("refund", "refund", Answer(wire, "wechat", reply),
            Sent("refund/domestic/refunds", lookup(opReq), idOf(opReq),
                 reply.total, opReq.refundAmount))
    /\ UNCHANGED <<pInstance, keyOk, pLast, opReq>>
    /\ UNCHANGED <<mvars, nvars, fvars, gvars, svars, hvars>>

\* WechatProvider.refund from queryOrder's result to the await of
\* createRefund
RefundQueryAnswered(reply) ==
    /\ opPc = "refundQuery"
    /\ LET queryResult == WechatQueryResult(reply).value IN
       IF ~queryResult.success
       THEN /\ wire' = Answer(wire, "wechat", reply)
            /\ Finish(Failed("refund", Error(MsgQueryFailed)))
            /\ UNCHANGED totalAmount
       ELSE /\ totalAmount' = queryResult.orderInfo.totalAmount
            /\ Call("refund", "refund", Answer(wire, "wechat", reply),
                    Sent("refund/domestic/refunds", lookup(opReq),
                         idOf(opReq), queryResult.orderInfo.totalAmount,
                         opReq.refundAmount))
    /\ UNCHANGED <<pInstance, keyOk, pLast, opReq>>
    /\ UNCHANGED <<mvars, nvars, fvars, gvars, svars, hvars>>

\* refund from the answer to the refund call on
RefundAnswered(reply) ==
    /\ opPc = "refund"
    /\ LET name == pInstance.providerName
           result == ClientRequest(name, reply) IN
       /\ wire' = Answer(wire, name, reply)
       /\ Finish(
            IF result.kind = "throw" THEN Failed("refund", result)
            ELSE IF name = "wechat"
            THEN IF reply.shape # "full" THEN Failed("refund", TypeError)
                 ELSE RefundOk([refundStatus |->
                         IF reply.state = "SUCCESS" THEN "SUCCESS"
                         ELSE IF reply.state = "CLOSED" THEN "FAIL"
                         ELSE "PENDING"])
            ELSE RefundOk([refundStatus |->
                    IF reply.shape = "full" /\ reply.state = "SUCCESS"
                    THEN "SUCCESS" ELSE "FAIL"]))
    /\ UNCHANGED <<pInstance, keyOk, pLast, opReq, totalAmount>>
    /\ UNCHANGED <<mvars, nvars, fvars, gvars, svars, hvars>>

NextProvider ==
    \/ \E name \in FactoryNames, cfg \in PartialConfigs, ok \in BOOLEAN :
           NewProvider(name, cfg, ok)
    \/ \E newConfig \in PartialConfigs : ProviderUpdateConfig(newConfig)
    \/ \E method \in MethodStrings, notifyUrl \in Urls, openid \in Openids :
           CreateOrder(method, notifyUrl, openid)
    \/ \E reply \in Replies : CreateAnswered(reply)
    \/ \E tradeNo \in TradeNos, outNo \in OutTradeNos :
           QueryOrder(tradeNo, outNo)
    \/ \E reply \in Replies : QueryAnswered(reply)
    \/ \E tradeNo \in TradeNos, outNo \in OutTradeNos,
          refundAmount \in RefundAmounts :
           Refund(tradeNo, outNo, refundAmount)
    \/ \E reply \in Replies : RefundQueryAnswered(reply)
    \/ \E reply \in Replies : RefundAnswered(reply)

ProviderIdle ==
    /\ pInstance = NoInstance
    /\ keyOk = TRUE
    /\ pLast = NoProviderCall
    /\ opPc = "idle"
    /\ opReq = NoRequest
    /\ wire = <<>>
    /\ totalAmount = 0
    /\ opOutcome = None

-----------------------------------------------------------------------------
(* Canonical strings: WechatPayV2Client.generateSignature and              *)
(* AlipayProvider.buildSignString                                          *)

\* a parameter object has at most MaxParams own keys
MaxParams == 3

\* the keys, in the ascending order Array.prototype.sort puts them in
ParamKeys == <<"appid", "body", "sign", "sign_type">>
KeySet == {ParamKeys[i] : i \in 1..Len(ParamKeys)}

\* a value is undefined, null, the empty string or a non-empty string
ParamValues == {"<undefined>", "<null>", "", "v", "w", "RSA2"}

\* an object is its own keys with their values, in insertion order
ParamObjects ==
    {p \in UNION {[1..n -> KeySet \X ParamValues] : n \in 0..MaxParams} :
        \A i, j \in 1..Len(p) : i # j => p[i][1] # p[j][1]}

\* Object.keys(params)
keysOf(params) == [i \in 1..Len(params) |-> params[i][1]]

\* params[key]
valueOf(params, key) ==
    IF \E i \in 1..Len(params) : params[i][1] = key
    THEN params[CHOOSE i \in 1..Len(params) : params[i][1] = key][2]
    ELSE "<undefined>"

\* `${value}` and String(value)
render(v) ==
    IF v = "<undefined>" THEN "undefined"
    ELSE IF v = "<null>" THEN "null"
    ELSE v

\* Array.prototype.sort() on an array of distinct keys
sort(keys) ==
    SelectSeq(ParamKeys, LAMBDA k : \E i \in 1..Len(keys) : keys[i] = k)

\* keys.map(key => `${key}=${value}`).join('&'): the string is written as
\* the sequence of its key=value parts
join(params, keys) ==
    [i \in 1..Len(keys) |-> <<keys[i], render(valueOf(params, keys[i]))>>]

\* WechatPayV2Client.generateSignature: the string that is hashed
WechatSignString(params, apiKey) ==
    LET kept(key) == /\ valueOf(params, key) # "<undefined>"
                     /\ valueOf(params, key) # ""
                     /\ key # "sign"
        filteredParams == sort(SelectSeq(keysOf(params), kept)) IN
    join(params, filteredParams) \o <<<<"key", apiKey>>>>

\* AlipayProvider.buildSignString
buildSignString(params) ==
    LET kept(key) == /\ key # "sign"
                     /\ key # "sign_type"
                     /\ valueOf(params, key) # ""
                     /\ valueOf(params, key) \notin {"<null>", "<undefined>"}
        sortedKeys == sort(SelectSeq(keysOf(params), kept)) IN
    join(params, sortedKeys)

NoSignOut == [by |-> "none", string |-> <<>>, digest |-> "none"]

\* client.generateSignature(params) of a client with this signType
GenerateSignature(signType) ==
    /\ sOut' = [by |-> "generateSignature",
                string |-> WechatSignString(sParams, "apiKey"),
                digest |-> IF signType = "HMAC-SHA256" THEN "HMAC-SHA256"
                           ELSE "MD5"]
    /\ UNCHANGED <<sParams, roundTrip>>
    /\ UNCHANGED <<mvars, nvars, fvars, gvars, pvars, hvars>>

\* this.buildSignString(params)
BuildSignString ==
    /\ sOut' = [by |-> "buildSignString", string |-> buildSignString(sParams),
                digest |-> "none"]
    /\ UNCHANGED <<sParams, roundTrip>>
    /\ UNCHANGED <<mvars, nvars, fvars, gvars, pvars, hvars>>

\* a signature is told by the string and the digest algorithm it was made
\* over, and by whether the key it was made with is the private key of the
\* verifier's public key
NoRoundTrip == [string |-> <<>>, algorithm |-> "none", verified |-> "none"]

\* signType === 'RSA2' ? 'RSA-SHA256' : 'RSA-SHA1'
algorithm(signType) == IF signType = "RSA2" THEN "RSA-SHA256" ELSE "RSA-SHA1"

\* AlipaySignature.generateSignature: the string that is signed
AlipaySignString(params) ==
    LET kept(key) == /\ valueOf(params, key) # ""
                     /\ valueOf(params, key) \notin {"<null>", "<undefined>"}
        filteredParams == sort(SelectSeq(keysOf(params), kept)) IN
    join(params, filteredParams)

\* AlipaySignature.verifySignature: the string that is verified
AlipayVerifyString(params) ==
    LET rest(key) == key \notin {"sign", "sign_type"}
        kept(key) == /\ valueOf(params, key) # ""
                     /\ valueOf(params, key) \notin {"<null>", "<undefined>"}
        filteredParams == SelectSeq(keysOf(params), rest) IN
    join(params, sort(SelectSeq(filteredParams, kept)))

\* new AlipaySignature(privateKey, signType).generateSignature(params)
AlipayGenerateSignature(signType) ==
    /\ roundTrip = NoRoundTrip
    /\ roundTrip' = [string |-> AlipaySignString(sParams),
                     algorithm |-> algorithm(signType),
                     verified |-> "none"]
    /\ UNCHANGED <<sParams, sOut>>
    /\ UNCHANGED <<mvars, nvars, fvars, gvars, pvars, hvars>>

\* verifySignature(params, signature, publicKey) on that signature, with
\* the public key of the signer's private key: verify tells whether the
\* signature was made over this string with this algorithm
AlipaySignatureVerify ==
    /\ roundTrip.algorithm # "none"
    /\ roundTrip.verified = "none"
    /\ roundTrip' =
           [roundTrip EXCEPT !.verified =
               IF /\ roundTrip.string = AlipayVerifyString(sParams)
                  /\ roundTrip.algorithm
                         = algorithm(valueOf(sParams, "sign_type"))
               THEN "true" ELSE "false"]
    /\ UNCHANGED <<sParams, sOut>>
    /\ UNCHANGED <<mvars, nvars, fvars, gvars, pvars, hvars>>

NextSign ==
    \/ \E signType \in {"MD5", "HMAC-SHA256"} : GenerateSignature(signType)
    \/ BuildSignString
    \/ \E signType \in {"RSA", "RSA2"} : AlipayGenerateSignature(signType)
    \/ AlipaySignatureVerify

SignIdle ==
    /\ sParams = <<>>
    /\ sOut = NoSignOut
    /\ roundTrip = NoRoundTrip

-----------------------------------------------------------------------------
(* HookManager under callStatusHooks: handlers that settle late or never,  *)
(* and handlers that call on() and off() while their event is emitted      *)

\* handlers registered for one event when callStatusHooks begins
MaxHandlers == 2

\* a handler is told by what it does when invoked: it returns a promise
\* that settles later, returns one that never settles, throws, or calls
\* off(event, itself), off(event, hSettles) or on(event, hSettles) on the
\* event it is invoked for and returns
HookHandlers ==
    {"hSettles", "hNever", "hThrows", "hOffSelf", "hOffSettles", "hOnSettles"}
HandlerLists == UNION {[1..n -> HookHandlers] : n \in 0..MaxHandlers}

\* HookManager.on: handlers.push(handler)
on(handlers, handler) == Append(handlers, handler)

\* HookManager.off: handlers.indexOf(handler), handlers.splice(index, 1)
off(handlers, handler) ==
    IF \E i \in 1..Len(handlers) : handlers[i] = handler
    THEN LET index == CHOOSE i \in 1..Len(handlers) :
                          /\ handlers[i] = handler
                          /\ \A j \in 1..(i - 1) : handlers[j] # handler IN
         SubSeq(handlers, 1, index - 1)
             \o SubSeq(handlers, index + 1, Len(handlers))
    ELSE handlers

\* handler(notification): what the call does to the array of its event,
\* which on and off change in place
handlerCall(handler, handlers) ==
    CASE handler = "hOffSelf" -> off(handlers, "hOffSelf")
      [] handler = "hOffSettles" -> off(handlers, "hSettles")
      [] handler = "hOnSettles" -> on(handlers, "hSettles")
      [] OTHER -> handlers

\* the promise the map callback returns for a handler: Promise.resolve of
\* what it returned, or Promise.resolve() from the catch clause
promiseOf(handler) ==
    CASE handler = "hSettles" -> "pending"
      [] handler = "hNever" -> "never"
      [] OTHER -> "settled"

\* handlers.map(callback) from index k on: the length is read once, before
\* the first call, and an index the array no longer has is passed over
\* (Promise.allSettled takes the hole as a settled value)
RECURSIVE map(_, _, _, _, _)
map(handlers, k, len, invoked, promises) ==
    IF k > len
    THEN [handlers |-> handlers, invoked |-> invoked, promises |-> promises]
    ELSE IF k > Len(handlers)
    THEN map(handlers, k + 1, len, invoked, Append(promises, "settled"))
    ELSE map(handlerCall(handlers[k], handlers), k + 1, len,
             Append(invoked, handlers[k]),
             Append(promises, promiseOf(handlers[k])))

\* HookManager.emit up to its await: registered is the array as emit found
\* it
emitToAwait(event, registry) ==
    LET handlers == registry[event]
        r == map(handlers, 1, Len(handlers), <<>>, <<>>) IN
    [hooks |-> [registry EXCEPT ![event] = r.handlers],
     emit |-> [event |-> event, registered |-> handlers,
               invoked |-> r.invoked, promises |-> r.promises]]

\* Promise.allSettled(promises) has resolved
allSettled(promises) == \A i \in 1..Len(promises) : promises[i] = "settled"

\* callStatusHooks is called with a notification and emits onNotify
CallStatusHooks ==
    /\ hPc = "idle"
    /\ LET e == emitToAwait("onNotify", hmHooks) IN
       /\ hmHooks' = e.hooks
       /\ emits' = <<e.emit>>
    /\ hPc' = "onNotify"
    /\ UNCHANGED notification
    /\ UNCHANGED <<mvars, nvars, fvars, gvars, pvars, svars>>

\* the promise a handler of the emit in progress returned settles
HandlerSettles(i) ==
    /\ hPc \in {"onNotify", "status"}
    /\ i \in 1..Len(emits[Len(emits)].promises)
    /\ emits[Len(emits)].promises[i] = "pending"
    /\ emits' = [emits EXCEPT ![Len(emits)].promises[i] = "settled"]
    /\ UNCHANGED <<hmHooks, hPc, notification>>
    /\ UNCHANGED <<mvars, nvars, fvars, gvars, pvars, svars>>

\* the await of emit('onNotify') ends: the switch emits the status event
NotifyEmitSettled ==
    /\ hPc = "onNotify"
    /\ allSettled(emits[1].promises)
    /\ LET e == emitToAwait(statusEvent(notification.tradeStatus), hmHooks) IN
       /\ hmHooks' = e.hooks
       /\ emits' = Append(emits, e.emit)
    /\ hPc' = "status"
    /\ UNCHANGED notification
    /\ UNCHANGED <<mvars, nvars, fvars, gvars, pvars, svars>>

\* the await of the status emit ends: callStatusHooks returns
StatusEmitSettled ==
    /\ hPc = "status"
    /\ allSettled(emits[2].promises)
    /\ hPc' = "done"
    /\ UNCHANGED <<hmHooks, notification, emits>>
    /\ UNCHANGED <<mvars, nvars, fvars, gvars, pvars, svars>>

NextHooks ==
    \/ CallStatusHooks
    \/ \E i \in 1..(2 * MaxHandlers) : HandlerSettles(i)
    \/ NotifyEmitSettled
    \/ StatusEmitSettled

-----------------------------------------------------------------------------

(* Specifications, one for each component                                  *)

HooksIdle ==
    /\ hmHooks = NoHooks
    /\ hPc = "idle"
    /\ notification = [tradeStatus |-> "none"]
    /\ emits = <<>>

NotifyIdle ==
    /\ nPc = "idle"
    /\ provider = "wechat"
    /\ config = [enabled |-> TRUE, key |-> "good"]
    /\ payload = NoPayload
    /\ steps = <<>>
    /\ verifyResult = NoVerify
    /\ transformed = None
    /\ nOutcome = None
    /\ ack = NoAck

InitMicropay ==
    /\ mpPc = "idle"
    /\ now = 0
    /\ startTime = -1
    /\ outTradeNo \in {"", "T1"}
    /\ log = <<>>
    /\ mpOutcome = None
    /\ readUnverified = FALSE
    /\ NotifyIdle
    /\ FactoryIdle
    /\ ManagerIdle
    /\ ProviderIdle
    /\ SignIdle
    /\ HooksIdle

SpecMicropay == InitMicropay /\ [][NextMicropay]_vars

\* every await of the flow settles: timers fire and the HTTP client answers
\* or fails
FairSpecMicropay == SpecMicropay /\ WF_vars(NextMicropay)

MicropayIdle ==
    /\ mpPc = "idle"
    /\ now = 0
    /\ startTime = -1
    /\ outTradeNo = "T1"
    /\ log = <<>>
    /\ mpOutcome = None
    /\ readUnverified = FALSE

InitNotify ==
    /\ MicropayIdle
    /\ nPc = "idle"
    /\ provider \in {"wechat", "alipay"}
    /\ config \in Configs(provider)
    /\ payload = NoPayload
    /\ steps = <<>>
    /\ verifyResult = NoVerify
    /\ transformed = None
    /\ nOutcome = None
    /\ ack = NoAck
    /\ FactoryIdle
    /\ ManagerIdle
    /\ ProviderIdle
    /\ SignIdle
    /\ HooksIdle

SpecNotify == InitNotify /\ [][NextNotify]_vars

InitFactory ==
    /\ MicropayIdle
    /\ NotifyIdle
    /\ FactoryIdle
    /\ ManagerIdle
    /\ ProviderIdle
    /\ SignIdle
    /\ HooksIdle

SpecFactory == InitFactory /\ [][NextFactory]_vars

\* a manager constructed from any of the user configs, over the factory as
\* the module load left it
InitManager ==
    /\ MicropayIdle
    /\ NotifyIdle
    /\ factoryProviders = registerBuiltInProviders
    /\ fLast = Called("none", "", NoRegistration, AbsentConfig, Void)
    /\ \E userConfig \in UserConfigs :
           LET m == PaymentManagerV2(userConfig, registerBuiltInProviders,
                                     [n \in FactoryNames |-> NoInstance],
                                     1) IN
           /\ mConfig = m.config
           /\ providers = m.providers
           /\ settled = m.providers
           /\ hooks = m.hooks
           /\ instances = m.instances
           /\ nextId = m.nextId
    /\ calls = [c \in Calls |-> NoCall]
    /\ destroyed = FALSE
    /\ lastUpdate = NoUpdate
    /\ ProviderIdle
    /\ SignIdle
    /\ HooksIdle

SpecManager == InitManager /\ [][NextManager]_vars

InitProvider ==
    /\ MicropayIdle
    /\ NotifyIdle
    /\ FactoryIdle
    /\ ManagerIdle
    /\ ProviderIdle
    /\ SignIdle
    /\ HooksIdle

SpecProvider == InitProvider /\ [][NextProvider]_vars

\* generateSignature and buildSignString on any parameter object
InitSign ==
    /\ MicropayIdle
    /\ NotifyIdle
    /\ FactoryIdle
    /\ ManagerIdle
    /\ ProviderIdle
    /\ HooksIdle
    /\ sParams \in ParamObjects
    /\ sOut = NoSignOut
    /\ roundTrip = NoRoundTrip

SpecSign == InitSign /\ [][NextSign]_vars

\* callStatusHooks on any registry of the event's handlers
InitHooks ==
    /\ MicropayIdle
    /\ NotifyIdle
    /\ FactoryIdle
    /\ ManagerIdle
    /\ ProviderIdle
    /\ SignIdle
    /\ notification \in [tradeStatus : {"SUCCESS", "FAIL", "PENDING"}]
    /\ \E forNotify \in HandlerLists, forStatus \in HandlerLists :
           hmHooks = [NoHooks EXCEPT
                         !["onNotify"] = forNotify,
                         ![statusEvent(notification.tradeStatus)] = forStatus]
    /\ hPc = "idle"
    /\ emits = <<>>

SpecHooks == InitHooks /\ [][NextHooks]_vars

\* a promise that settles does settle, and the continuation of a resolved
\* await runs
FairSpecHooks == SpecHooks /\ WF_vars(NextHooks)

-----------------------------------------------------------------------------
(* Properties of processMicropay *)

Done == mpPc = "done"
HasEv(e, i) == \E k \in 1..Len(log) : log[k] = Ev(e, i)
Polling == startTime # -1
TimedOut == mpOutcome = Throw("NETWORK_ERROR", MsgTimeout)
Indeterminate == mpOutcome = Throw("NETWORK_ERROR", MsgIndeterminate)

\* micropay answered USERPAYING and no query answered success or
\* PAYERROR / CLOSED
UserPayingUndecided ==
    /\ HasEv("micropayAnswer", "USERPAYING")
    /\ ~HasEv("answer", "success")
    /\ ~HasEv("answer", "failed")

C2_PollDeadline == Polling => now - startTime <= PollTimeout

\* C3: in the polling loop a query that answers PAYERROR or CLOSED is the
\* last thing the flow does: it has ended with an error, and no sleep, query
\* or reversal follows that answer.
C3_FailedPollRaisesAtOnce ==
    \A k \in 1..Len(log) :
        Polling /\ log[k] = Ev("answer", "failed")
            => k = Len(log) /\ Done /\ mpOutcome.kind = "throw"

\* C4: when micropay answers SYSTEMERROR and the follow-up query answers
\* success, the flow returns that success after the grace sleep and one
\* query, with no polling and no reverseOrder call; the query is never sent
\* before the 5 s grace wait has passed.
C4_SystemErrorThenSuccess ==
    /\ mpPc = "sysQuery" => now >= GraceWait
    /\ Done /\ HasEv("micropayAnswer", "SYSTEMERROR")
            /\ HasEv("answer", "success")
        => /\ mpOutcome.kind = "return"
           /\ IsSuccess(mpOutcome.value)
           /\ log = <<Ev("micropay", ""), Ev("micropayAnswer", "SYSTEMERROR"),
                      Ev("graceSleep", ""), Ev("queryOrder", ""),
                      Ev("answer", "success")>>
           /\ ~Polling
           /\ now >= GraceWait

C4_Witness ==
    /\ Done
    /\ HasEv("micropayAnswer", "SYSTEMERROR")
    /\ HasEv("answer", "success")
    /\ mpOutcome.kind = "return"
    /\ CountEv("queryOrder") = 1

\* C5: on the SYSTEMERROR path the status-indeterminate error is never
\* thrown without a reverseOrder call having been made first.
C5_ReversalBeforeIndeterminate ==
    Indeterminate => CountEv("reverseOrder") >= 1

\* C6: when the reverseOrder call fails, the flow still ends with the
\* primary error (status indeterminate or timeout), not the reversal's own.
C6_ReversalFailureNotPropagated ==
    Done /\ HasEv("reverseAnswer", "threw") => Indeterminate \/ TimedOut

\* C7: in every run the micropay API is called exactly once, whatever the
\* gateway answers.
C7_ChargedOnce ==
    /\ CountEv("micropay") <= 1
    /\ mpPc # "idle" => CountEv("micropay") = 1

C7_Witness ==
    /\ Done
    /\ CountEv("micropay") = 1
    /\ CountEv("queryOrder") >= 2
    /\ HasEv("answer", "threw")
    /\ CountEv("reverseOrder") = 1

-----------------------------------------------------------------------------
(* Properties of BaseProvider.handleNotify *)

NotifyDone == nPc = "done"
VerifyFailedError == Throw("VERIFY_FAILED", MsgSignature)
FullPipeline(prov) ==
    <<"validatePayload", "verifySignature">> \o TransformSteps(prov)
        \o <<"postProcess">>
IsPrefix(a, b) == Len(a) <= Len(b) /\ a = SubSeq(b, 1, Len(a))
Ran(step) == \E k \in 1..Len(steps) : steps[k] = step

\* C8: handleNotify returns a notification only if the signature check
\* evaluated to true; when the check is false, throws or cannot be
\* attempted, the call ends with VERIFY_FAILED and no notification is built.
C8_FailsClosed ==
    /\ nOutcome.kind = "return" => verifyResult.check = "true"
    /\ NotifyDone /\ verifyResult.check \in {"false", "threw", "skipped"}
        => nOutcome = VerifyFailedError /\ transformed = None

C8_Witness ==
    /\ NotifyDone
    /\ verifyResult.check = "threw"
    /\ nOutcome = VerifyFailedError
    /\ payload.signedWith # "forged"

\* C9: the steps of one handleNotify run in the order validatePayload,
\* verifySignature, transformNotification (with its decryption),
\* postProcess, and the step that fails is the last step that runs.
C9_StrictOrder ==
    /\ IsPrefix(steps, FullPipeline(provider))
    /\ Ran("aesGcmDecrypt") => verifyResult.success
    /\ nOutcome.kind = "return" => steps = FullPipeline(provider)
    /\ nOutcome.kind = "throw" /\ nOutcome.code = "INVALID_PARAMS"
        => steps = <<"validatePayload">>
    /\ nOutcome.kind = "throw" /\ nOutcome.code = "VERIFY_FAILED"
        => steps = <<"validatePayload", "verifySignature">>
    /\ nOutcome.kind = "throw"
            /\ nOutcome.code \in {"DECRYPT_FAILED", "UNKNOWN_PROVIDER"}
        => steps = <<"validatePayload", "verifySignature">>
                     \o TransformSteps(provider)

C9_Witness ==
    /\ NotifyDone
    /\ nOutcome = Throw("DECRYPT_FAILED", MsgDecrypt)
    /\ steps = <<"validatePayload", "verifySignature",
                 "transformNotification", "aesGcmDecrypt">>

\* C10: a provider with enabled = false rejects handleNotify with
\* CONFIG_ERROR and runs no step of the pipeline.
C10_DisabledRejects ==
    ~config.enabled /\ nPc # "idle"
        => /\ NotifyDone
           /\ nOutcome = Throw("CONFIG_ERROR", MsgDisabled)
           /\ steps = <<>>
           /\ verifyResult = NoVerify
           /\ transformed = None

C10_Witness ==
    /\ ~config.enabled
    /\ NotifyDone
    /\ nOutcome = Throw("CONFIG_ERROR", MsgDisabled)
    /\ payload.shape = "ok"
    /\ payload.signedWith # "forged"

\* C11: a WeChat callback that passes validation and signature verification
\* and whose ciphertext was sealed under the configured apiV3Key with
\* resource.nonce and resource.associated_data is decrypted, and handleNotify
\* returns the notification built from the decrypted transaction.
C11_WellSealedCallbackDecrypts ==
    /\ NotifyDone
    /\ provider = "wechat"
    /\ verifyResult.success
    /\ payload.enc = [key |-> "apiV3Key", nonce |-> "nonce",
                      aad |-> "associated_data"]
    /\ payload.plain = "ok"
    => /\ nOutcome.kind = "return"
       /\ nOutcome.value.from = "decrypted"

\* the status codes each provider's table maps to SUCCESS and to FAIL
SuccessCodes(prov) ==
    IF prov = "wechat" THEN {"SUCCESS"}
    ELSE {"TRADE_SUCCESS", "TRADE_FINISHED"}
FailCodes(prov) ==
    IF prov = "wechat" THEN {"REFUND", "CLOSED", "REVOKED", "PAYERROR"}
    ELSE {"TRADE_CLOSED"}

-----------------------------------------------------------------------------
(* Properties of ProviderFactory *)

\* C19: register on a name that is already registered fails with an error
\* and changes neither the name's registration nor the instance cache.
C19_NoSilentOverwrite ==
    [][(fLast'.op = "register"
        /\ factoryProviders[fLast'.name] # NoRegistration)
       => /\ fLast'.out.kind = "throw"
          /\ factoryProviders' = factoryProviders
          /\ instances' = instances]_vars

C19_Witness ==
    /\ fLast.op = "register"
    /\ fLast.out = Throw("CONFIG_ERROR", MsgRegistered)
    /\ fLast.registration # factoryProviders[fLast.name]
    /\ instances[fLast.name] # NoInstance

\* C20: create(name, config) fails with UNKNOWN_PROVIDER for an unregistered
\* name and with CONFIG_ERROR when defaultConfig overridden key by key by
\* config is invalid, leaving the instance cache as it was; otherwise it
\* returns a new instance carrying that merged config, which becomes the
\* cached instance of name.
C20_CreateMergesValidatesCaches ==
    [][fLast'.op = "create"
       => LET name == fLast'.name
              out == fLast'.out
              registration == factoryProviders[name]
              merged == [k \in {"enabled", "appId"} |->
                            IF fLast'.config[k] # "absent"
                            THEN fLast'.config[k]
                            ELSE registration.defaultConfig[k]] IN
          IF registration = NoRegistration
          THEN /\ out.kind = "throw" /\ out.code = "UNKNOWN_PROVIDER"
               /\ instances' = instances
          ELSE IF validateConfig(registration.constructor, merged).kind
                  = "throw"
          THEN /\ out.kind = "throw" /\ out.code = "CONFIG_ERROR"
               /\ instances' = instances
          ELSE /\ out.kind = "return"
               /\ out.value.config = merged
               /\ \A n \in FactoryNames : instances[n].id # out.value.id
               /\ instances' = [instances EXCEPT ![name] = out.value]]_vars

\* a create whose config overrides one default and inherits the other, and
\* which replaced an instance cached before
C20_Witness ==
    /\ fLast.op = "create"
    /\ fLast.out.kind = "return"
    /\ fLast.config = [enabled |-> "false", appId |-> "absent"]
    /\ fLast.out.value.config = [enabled |-> "false", appId |-> "wx"]
    /\ instances[fLast.name] = fLast.out.value
    /\ fLast.out.value.id = 2

-----------------------------------------------------------------------------
(* Properties of PaymentManagerV2 *)

Resolved(call) == call.result.kind = "return"
EventsOf(call) == [i \in 1..Len(call.emitted) |-> call.emitted[i].event]
MatchingEvent(tradeStatus) ==
    IF tradeStatus = "SUCCESS" THEN "onSuccess"
    ELSE IF tradeStatus = "FAIL" THEN "onFail" ELSE "onPending"
HandlersRun(e) == [i \in 1..Len(e.handlers) |->
                      [event |-> e.event, handler |-> e.handlers[i]]]
NameOf(call) == parseProviderName(call.method)

\* C13: hooks fire only once the provider returned a notification: the
\* events emitted are onNotify and then the one event matching the
\* notification's tradeStatus, every handler run belongs to one of the two
\* with the onNotify handlers first, and a call whose provider failed fires
\* nothing.
C13_NotifyThenMatchingStatus ==
    \A c \in Calls :
        LET call == calls[c] IN
        /\ ~Resolved(call) => call.fired = <<>> /\ call.emitted = <<>>
        /\ Resolved(call) =>
              /\ IsPrefix(EventsOf(call),
                          <<"onNotify",
                            MatchingEvent(call.result.value.tradeStatus)>>)
              /\ \A i \in 1..Len(call.fired) :
                     /\ \E k \in 1..Len(call.emitted) :
                            call.fired[i].event = call.emitted[k].event
                     /\ \A j \in 1..Len(call.fired) :
                            (i < j /\ call.fired[j].event = "onNotify")
                            => call.fired[i].event = "onNotify"
              /\ call.outcome.kind = "return" => Len(call.emitted) = 2

C13_Witness ==
    \E c \in Calls :
        /\ calls[c].pc = "done"
        /\ calls[c].outcome.kind = "return"
        /\ calls[c].outcome.value.tradeStatus = "PENDING"
        /\ calls[c].fired = <<[event |-> "onPending", handler |-> "hReturns"]>>

\* C14: once the provider returned a notification the call returns it,
\* whatever the handlers do: every handler registered for an emitted event
\* is invoked, those after a throwing or rejecting one included, and the
\* status event is emitted after onNotify.
C14_HandlerFailuresContained ==
    \A c \in Calls :
        LET call == calls[c] IN
        Resolved(call) =>
            /\ call.pc = "done" => call.outcome = Return(call.result.value)
            /\ call.pc = "onNotify" =>
                   /\ Len(call.emitted) = 1
                   /\ call.fired = HandlersRun(call.emitted[1])
            /\ call.pc \in {"status", "done"} =>
                   /\ Len(call.emitted) = 2
                   /\ call.fired = HandlersRun(call.emitted[1])
                                       \o HandlersRun(call.emitted[2])

C14_Witness ==
    \E c \in Calls :
        /\ calls[c].pc = "done"
        /\ calls[c].outcome.kind = "return"
        /\ calls[c].fired = <<[event |-> "onNotify", handler |-> "hThrows"],
                              [event |-> "onNotify", handler |-> "hReturns"],
                              [event |-> "onFail", handler |-> "hRejects"]>>

\* C15: the providers map a handleNotify call reads is the one the last
\* finished manager method left (the whole map of before an update or the
\* whole map of after it), and the notification a call gets comes from the
\* provider instance its lookup found, whatever updates ran since.
C15_UpdateIsAtomicForCalls ==
    \A c \in Calls :
        LET call == calls[c] IN
        call.pc # "idle" =>
            /\ call.sawSettled
            /\ call.invoked => call.found # NoInstance
            /\ Resolved(call) => call.result.value.by = call.found.id

C15_Witness ==
    \E c \in Calls :
        /\ calls[c].pc = "status"
        /\ lastUpdate.is
        /\ providers[NameOf(calls[c])] # NoInstance
        /\ providers[NameOf(calls[c])] # calls[c].found
        /\ calls[c].result.value.by = calls[c].found.id

\* C16: a handleNotify call made after destroy() fails with a dedicated
\* "manager destroyed" error, whatever was called in between.
C16_DestroyedForGood ==
    \A c \in Calls :
        (calls[c].afterDestroy /\ calls[c].pc = "done")
        => /\ calls[c].outcome.kind = "throw"
           /\ calls[c].outcome.msg = "manager destroyed"

Shape(provs) ==
    [n \in DOMAIN provs |->
        [providerName |-> provs[n].providerName, config |-> provs[n].config]]

\* C17: right after updateConfig(newConfig) the config, the providers (up
\* to the identity of the instances) and the hook registry are those of
\* new PaymentManagerV2(newConfig).
C17_UpdateEqualsFreshManager ==
    lastUpdate.is =>
        LET fresh == PaymentManagerV2(lastUpdate.newConfig, factoryProviders,
                                      instances, nextId) IN
        /\ mConfig = fresh.config
        /\ Shape(providers) = Shape(fresh.providers)
        /\ hooks = fresh.hooks

\* an update with an empty config, while a call is in flight that found a
\* provider added with addProvider and ran a handler registered with
\* onNotify
C17_Witness ==
    /\ lastUpdate.is
    /\ lastUpdate.newConfig = EmptyUserConfig
    /\ providers = NoProviders
    /\ hooks = NoHooks
    /\ \E c \in Calls :
           /\ calls[c].pc = "onNotify"
           /\ calls[c].fired = <<[event |-> "onNotify",
                                  handler |-> "hReturns"]>>
           /\ \A n \in FactoryNames : instances[n] # calls[c].found

\* C18 as stated: a call whose lookup finds no provider or a disabled one
\* ends with UNKNOWN_PROVIDER, the provider's handleNotify not invoked.
C18_AbsentOrDisabledIsUnknown ==
    \A c \in Calls :
        LET call == calls[c] IN
        (call.pc = "done"
         /\ (call.found = NoInstance \/ ~providerEnabled(call.found)))
        => /\ call.outcome.kind = "throw"
           /\ call.outcome.code = "UNKNOWN_PROVIDER"
           /\ ~call.invoked

\* C18: a call whose lookup finds no provider ends with UNKNOWN_PROVIDER,
\* one whose lookup finds a disabled provider ends with CONFIG_ERROR; in
\* neither case is the provider's handleNotify invoked.
C18_AbsentUnknownDisabledConfigError ==
    \A c \in Calls :
        LET call == calls[c] IN
        call.pc # "idle" =>
            /\ call.found = NoInstance =>
                   /\ call.pc = "done"
                   /\ call.outcome.kind = "throw"
                   /\ call.outcome.code = "UNKNOWN_PROVIDER"
                   /\ ~call.invoked
            /\ (call.found # NoInstance /\ ~providerEnabled(call.found)) =>
                   /\ call.pc = "done"
                   /\ call.outcome.kind = "throw"
                   /\ call.outcome.code = "CONFIG_ERROR"
                   /\ ~call.invoked

C18_Witness ==
    \E c \in Calls :
        /\ calls[c].pc = "done"
        /\ calls[c].found # NoInstance
        /\ ~providerEnabled(calls[c].found)
        /\ calls[c].outcome = Throw("CONFIG_ERROR", MsgNotEnabled)

-----------------------------------------------------------------------------
(* Further properties of ProviderFactory *)

\* C21: getOrCreate returns the instance cached under the name, whatever
\* config is passed, and changes nothing; with none cached it fails with
\* CONFIG_ERROR when no config is given, and otherwise constructs from the
\* config: a returned instance is new, carries the config merged over the
\* registration's defaults and is cached, a failed construction leaves the
\* cache as it was.
C21_GetOrCreatePrefersCache ==
    [][fLast'.op = "getOrCreate"
       => LET name == fLast'.name
              out == fLast'.out
              cached == instances[name] IN
          IF cached # NoInstance
          THEN /\ out = Return(cached)
               /\ instances' = instances
          ELSE IF fLast'.config = NoConfig
          THEN /\ out.kind = "throw" /\ out.code = "CONFIG_ERROR"
               /\ instances' = instances
          ELSE \/ /\ out.kind = "throw"
                  /\ instances' = instances
               \/ /\ out.kind = "return"
                  /\ out.value.id = nextId
                  /\ \A k \in {"enabled", "appId"} :
                         fLast'.config[k] # "absent"
                         => out.value.config[k] = fLast'.config[k]
                  /\ instances' = [instances EXCEPT ![name] = out.value]]_vars

\* a config that differs from the cached instance's is passed and the cached
\* instance comes back
C21_Witness ==
    /\ fLast.op = "getOrCreate"
    /\ fLast.out.kind = "return"
    /\ fLast.config \in PartialConfigs
    /\ fLast.config.enabled \notin {"absent", fLast.out.value.config.enabled}
    /\ instances[fLast.name] = fLast.out.value

-----------------------------------------------------------------------------
(* Properties of the Provider operations *)

IsQueryCall(w) == w.api \in {"transactions/id", "transactions/out-trade-no"}
IsRefundCall(w) == w.api = "refund/domestic/refunds"

\* the gateway answered the query with the order and its total
QuerySucceeded(w) ==
    /\ w.reply.kind = "response"
    /\ w.reply.status = 200
    /\ w.reply.shape = "full"

\* C22: in WechatProvider.refund every refund call on the wire is the second
\* request, after an order query that the gateway answered with the order,
\* and carries that order's total as its total; once a query has failed no
\* refund call follows and the result has success = false.
C22_RefundQueriesFirst ==
    (pInstance.providerName = "wechat" /\ opReq.op = "refund")
    => /\ \A i \in 1..Len(wire) :
              IsRefundCall(wire[i])
              => /\ i = 2
                 /\ IsQueryCall(wire[1])
                 /\ QuerySucceeded(wire[1])
                 /\ wire[i].total = wire[1].reply.total
                 /\ wire[i].total = totalAmount
       /\ (Len(wire) >= 1 /\ wire[1].reply # NoReply
           /\ ~QuerySucceeded(wire[1]))
          => /\ Len(wire) = 1
             /\ opPc = "done"
             /\ opOutcome.kind = "return"
             /\ opOutcome.value.success = FALSE

\* a refund went through: the query came back with a total of 250, the
\* refund call echoed it
C22_Witness ==
    /\ pInstance.providerName = "wechat"
    /\ opReq.op = "refund"
    /\ opPc = "done"
    /\ Len(wire) = 2
    /\ IsQueryCall(wire[1]) /\ IsRefundCall(wire[2])
    /\ wire[1].reply.total = 250
    /\ wire[2].total = 250
    /\ opOutcome.value.success

\* an identifier is supplied when the request carries a non-empty value
Supplied(v) == v \notin {"undefined", ""}

Rejected ==
    /\ opPc = "done"
    /\ opOutcome.kind = "return"
    /\ opOutcome.value.success = FALSE
    /\ wire = <<>>

\* C23: queryOrder and refund go on only with exactly one of tradeNo and
\* outTradeNo supplied: a request with neither and a request with both is
\* rejected with success = false and nothing is sent to the gateway.
C23_ExactlyOneIdentifier ==
    (opReq.op \in {"queryOrder", "refund"}
     /\ Supplied(opReq.tradeNo) = Supplied(opReq.outTradeNo))
    => Rejected

\* the method strings that name a sub-method the provider supports, with
\* or without the provider's prefix
Naming(name) ==
    {<<t>> : t \in supportedMethods(name)}
    \cup {<<IF name = "wechat" THEN "wechat." ELSE "alipay.", t>> :
             t \in supportedMethods(name)}

\* the API a sub-method's order goes to
ApiOf(name, sub) ==
    IF name = "wechat" THEN sub
    ELSE IF sub = "qrcode" THEN "alipay.trade.create FACE_TO_FACE_PAYMENT"
    ELSE "alipay.trade.create QUICK_MSECURITY_PAY"

\* C24: createOrder with a method string that names no supported sub-method
\* of the provider ends with success = false and an error and sends nothing;
\* a request that is sent goes to the API of the sub-method named, never to
\* another one.
C24_UnsupportedMethodRejected ==
    opReq.op = "createOrder"
    => /\ opReq.method \notin Naming(pInstance.providerName)
          => /\ Rejected
             /\ opOutcome.value.error \notin {"undefined", ""}
       /\ \A i \in 1..Len(wire) :
              wire[i].api = ApiOf(pInstance.providerName,
                                  opReq.method[Len(opReq.method)])

\* "wechat.qrcode" is given to the WeChat provider, "alipay.native" to the
\* Alipay provider
C24_Witness ==
    /\ opReq.op = "createOrder"
    /\ opPc = "done"
    /\ opReq.method \in {<<"wechat.", "qrcode">>, <<"alipay.", "native">>}
    /\ Len(opReq.method) = 2
    /\ pInstance.providerName = (IF opReq.method[1] = "wechat." THEN "wechat"
                                 ELSE "alipay")
    /\ opOutcome.value.error = MsgUnsupported

\* the payment-presentation fields of a result that are populated
Populated(paymentData) ==
    {f \in DOMAIN paymentData : paymentData[f] # "undefined"}

\* the presentation field a sub-method selects
FieldOf(name, sub) ==
    CASE sub \in {"native", "qrcode"} -> "qrCode"
      [] sub = "jsapi" -> "payParams"
      [] sub = "h5" -> "payUrl"
      [] sub = "pc" -> "payForm"
      [] OTHER -> IF name = "wechat" THEN "payParams" ELSE "orderInfo"

\* C25: a createOrder result with success = false has no presentation field
\* populated and its error populated; one with success = true has exactly
\* one presentation field populated, the one its sub-method selects.
C25_ResultShape ==
    (opReq.op = "createOrder" /\ opPc = "done" /\ opOutcome.kind = "return")
    => LET result == opOutcome.value IN
       IF result.success
       THEN Populated(result.paymentData)
            = {FieldOf(pInstance.providerName,
                       opReq.method[Len(opReq.method)])}
       ELSE /\ Populated(result.paymentData) = {}
            /\ result.error \notin {"undefined", ""}

\* the request failed validation, or a call of the client has thrown: the
\* transport failed, the status was not 2xx or the gateway reported an error
Failure ==
    \/ opReq.op = "createOrder"
       /\ opReq.method \notin Naming(pInstance.providerName)
    \/ opReq.op \in {"queryOrder", "refund"}
       /\ ~Supplied(opReq.tradeNo) /\ ~Supplied(opReq.outTradeNo)
    \/ \E i \in 1..Len(wire) : wire[i].out.kind = "throw"

\* C26: createOrder, queryOrder and refund never throw; after a validation
\* failure, a transport failure or a failure the gateway reported they
\* return success = false with a non-empty error string.
C26_FailuresAreResults ==
    opPc = "done"
    => /\ opOutcome.kind = "return"
       /\ Failure => /\ opOutcome.value.success = FALSE
                     /\ opOutcome.value.error \notin {"undefined", ""}

\* fetch was rejected under a queryOrder, and under a createOrder the
\* gateway answered with its error document
C26_Witness ==
    /\ opPc = "done"
    /\ Len(wire) = 1
    /\ \/ opReq.op = "queryOrder" /\ wire[1].reply.kind = "reject"
       \/ opReq.op = "createOrder" /\ wire[1].reply.shape = "error"
    /\ opOutcome.kind = "return"
    /\ opOutcome.value.success = FALSE

-----------------------------------------------------------------------------
(* Properties of the canonical strings *)

\* the same object with its keys inserted in another order
Orderings(params) ==
    {[i \in 1..Len(params) |-> params[f[i]]] :
        f \in {g \in [1..Len(params) -> 1..Len(params)] :
                  \A i, j \in 1..Len(params) : i # j => g[i] # g[j]}}

CanonicalOf(by, params) ==
    IF by = "generateSignature" THEN WechatSignString(params, "apiKey")
    ELSE buildSignString(params)

\* the key=value parts of a canonical string, without the trailing key=
\* part of the keyed hash
PartsOf(out) ==
    IF out.by = "generateSignature"
    THEN SubSeq(out.string, 1, Len(out.string) - 1)
    ELSE out.string

RankOf(key) == CHOOSE i \in 1..Len(ParamKeys) : ParamKeys[i] = key

\* C27: the canonical string of a parameter object is the same for every
\* order of its keys, has its key=value parts in ascending key order, and
\* has no part for a key whose value is the empty string, null or undefined
\* nor for the signature key.
C27_CanonicalString ==
    sOut.by # "none"
    => LET parts == PartsOf(sOut) IN
       /\ \A q \in Orderings(sParams) :
              CanonicalOf(sOut.by, q) = sOut.string
       /\ \A i, j \in 1..Len(parts) :
              i < j => RankOf(parts[i][1]) < RankOf(parts[j][1])
       /\ \A i \in 1..Len(parts) :
              /\ parts[i][1] # "sign"
              /\ valueOf(sParams, parts[i][1])
                     \notin {"", "<null>", "<undefined>"}

-----------------------------------------------------------------------------
(* Properties of the gateway clients *)

\* C28: processMicropay reads return_code, result_code, err_code and
\* trade_state only of responses whose signature check has passed; a
\* response that fails or lacks the check never gets as far as that.
C28_OnlyVerifiedResponsesRead == ~readUnverified

\* the gateway was reached and answered with its error document
BusinessFailure(reply) == reply.kind = "response" /\ reply.shape = "error"

\* fetch was rejected, or the status is not 2xx and no error document came
TransportFailure(reply) ==
    \/ reply.kind = "reject"
    \/ reply.kind = "response" /\ reply.status >= 400 /\ reply.shape # "error"

\* the error kinds a client uses for transport failures
TransportKinds(name) ==
    {ClientRequest(name, reply).code :
        reply \in {r \in Replies : TransportFailure(r)}}

\* C29: the error a gateway client throws for a failure the gateway
\* reported has a kind other than the kinds it uses for transport failures
\* and non-2xx responses.
C29_BusinessFailureKind ==
    \A i \in 1..Len(wire) :
        (BusinessFailure(wire[i].reply) /\ wire[i].out.kind = "throw")
        => wire[i].out.code \notin TransportKinds(pInstance.providerName)

-----------------------------------------------------------------------------
(* Properties of Provider construction and updateConfig *)

\* the identity field of a config is there and matches the provider's
\* pattern
ValidFor(name, cfg) ==
    cfg.appId = (IF name = "wechat" THEN "wx" ELSE "16digits")

\* C30: a Provider object always holds a valid config: a constructor call
\* with an invalid config throws CONFIG_ERROR and leaves no object, and an
\* updateConfig whose values make the config invalid throws CONFIG_ERROR
\* and leaves the object with the config it had.
C30_InstancesHoldValidConfig ==
    /\ pInstance # NoInstance
       => ValidFor(pInstance.providerName, pInstance.config)
    /\ (pLast.op = "new" /\ ~ValidFor(pLast.name, pLast.arg))
       => /\ pLast.out.kind = "throw"
          /\ pLast.out.code = "CONFIG_ERROR"
          /\ pInstance = NoInstance
    /\ (pLast.op = "updateConfig"
        /\ \E k \in DOMAIN pLast.arg : pLast.arg[k] # "absent"
        /\ ~ValidFor(pLast.name,
                     [f \in DOMAIN pLast.arg |->
                         IF pLast.arg[f] # "absent" THEN pLast.arg[f]
                         ELSE pLast.before[f]]))
       => /\ pLast.out.kind = "throw"
          /\ pLast.out.code = "CONFIG_ERROR"
          /\ pInstance.config = pLast.before

-----------------------------------------------------------------------------
(* Properties of processMicropay's results *)

\* the answer that processMicropay returned came from the micropay call
FromMicropay == log[Len(log)].ev = "micropayAnswer"

\* C34: processMicropay returns a result only when the gateway reported the
\* payment as completed: the micropay answer has return_code and
\* result_code SUCCESS, or an order-query answer has trade_state SUCCESS; a
\* query answer whose trade is USERPAYING, NOTPAY, CLOSED or in error is
\* never returned.
C34_ReturnsOnlyCompletedPayments ==
    mpOutcome.kind = "return"
    => IF FromMicropay THEN IsSuccess(mpOutcome.value)
       ELSE mpOutcome.value.trade_state = "SUCCESS"

\* C35: no run has both a reverseOrder call and a returned result: once
\* reverseOrder has been called the run ends by throwing, and a run calls
\* reverseOrder at most once.
C35_NoReversalOfReturnedPayment ==
    /\ CountEv("reverseOrder") <= 1
    /\ CountEv("reverseOrder") = 1 => mpOutcome.kind # "return"
    /\ Done /\ CountEv("reverseOrder") = 1 => mpOutcome.kind = "throw"

C35_Witness ==
    /\ Done
    /\ CountEv("reverseOrder") = 1
    /\ HasEv("reverseAnswer", "returned")
    /\ mpOutcome.kind = "throw"
    /\ Polling

-----------------------------------------------------------------------------
(* Properties of the ProviderFactory's two maps *)

\* C36: after any sequence of register, unregister, create, getOrCreate,
\* createBatch, clearInstances and reset, every name with a cached instance
\* is a registered name.
C36_CachedAreRegistered ==
    \A n \in FactoryNames :
        instances[n] # NoInstance => factoryProviders[n] # NoRegistration

\* one name was unregistered and has lost its registration and its
\* instance, while the other name's instance is still cached
C36_Witness ==
    /\ fLast.op = "unregister"
    /\ nextId = MaxCreates + 1
    /\ factoryProviders[fLast.name] = NoRegistration
    /\ instances[fLast.name] = NoInstance
    /\ \E n \in FactoryNames :
           /\ instances[n] # NoInstance
           /\ factoryProviders[n] # NoRegistration

-----------------------------------------------------------------------------
(* Properties of the advertised payment methods *)

\* the method strings getSupportedMethods() lists for a provider
Advertised(name) ==
    {<<IF name = "wechat" THEN "wechat." ELSE "alipay.", m>> :
        m \in supportedMethods(name)}

\* the error messages that tell a caller the payment method is not supported
UnsupportedErrors == {MsgUnsupported, MsgSwitchDefault}

\* C39: every payment method a provider advertises is one its createOrder
\* handles: for an advertised method createOrder does not fail with an
\* unsupported-payment-method error.
C39_AdvertisedMethodsHandled ==
    (opPc = "done" /\ opReq.op = "createOrder"
        /\ opReq.method \in Advertised(pInstance.providerName))
    => opOutcome.value.error \notin UnsupportedErrors

-----------------------------------------------------------------------------
(* Properties of handleNotify calls that overlap an update *)

\* C38: when updateConfig or destroy runs while a handleNotify call is
\* suspended inside the provider, the handlers of every event emitted for
\* that call's notification are the ones that were registered for the event
\* when the call began.
C38_HooksOfTheCallsGeneration ==
    \A c \in Calls :
        LET call == calls[c] IN
        \A i \in 1..Len(call.emitted) :
            call.emitted[i].handlers = call.registered[call.emitted[i].event]

-----------------------------------------------------------------------------
(* Properties of the acknowledgments *)

Acked == ack # NoAck

\* C32: for an Alipay callback whose sign field does not verify,
\* handleNotify throws VERIFY_FAILED, and the acknowledgment built for that
\* failure is the text "fail" with HTTP status 400 and content type
\* text/plain.
C32_AlipayFailureAck ==
    (provider = "alipay" /\ NotifyDone /\ verifyResult.check = "false")
    => /\ nOutcome = VerifyFailedError
       /\ Acked => ack = [status |-> 400, contentType |-> "text/plain",
                          code |-> "", text |-> <<"fail">>]

\* C33: the WeChat acknowledgment always has HTTP status 200 and a JSON
\* body: code SUCCESS when the callback was handled, code FAIL with the
\* failure reason as its message when it was not.
C33_WechatAckIsAlways200 ==
    (provider = "wechat" /\ Acked)
    => /\ ack.status = 200
       /\ ack.contentType = "application/json"
       /\ nOutcome.kind = "return" => ack.code = "SUCCESS"
       /\ nOutcome.kind = "throw"
          => /\ ack.code = "FAIL"
             /\ ack.text = ErrorMessage(provider, nOutcome, verifyResult)

-----------------------------------------------------------------------------
(* Properties of AlipaySignature *)

\* C40: for every parameter map, one carrying sign_type included, and a
\* matching key pair, verifySignature accepts the map with the signature
\* that generateSignature returned for it.
C40_AlipaySignatureRoundTrip ==
    roundTrip.verified # "none" => roundTrip.verified = "true"

-----------------------------------------------------------------------------
(* Properties of HookManager.emit and callStatusHooks *)

\* the status event of the notification has been emitted
StatusEmitted ==
    \E i \in 1..Len(emits) :
        emits[i].event = statusEvent(notification.tradeStatus)

\* C31: a handler of one event that never settles does not block other
\* events: once onNotify has been emitted for a notification, the handlers
\* of the matching status event are eventually invoked, whatever the
\* onNotify handlers do.
C31_StatusHooksNotBlocked == (hPc = "onNotify") ~> StatusEmitted

\* C37: emit invokes every handler that is registered for the event when
\* the emit starts exactly once and in registration order, also when a
\* handler calls on() or off() on the event during the emit.
C37_EmitRunsRegisteredHandlers ==
    \A i \in 1..Len(emits) : emits[i].invoked = emits[i].registered

====
